---- MODULE Spec2Model ----
(***************************************************************************)
(* A model of keystonelight: the append-only command log (storage/log.rs), *)
(* the Database built on it (storage/mod.rs) and the line protocol of the  *)
(* server (protocol/mod.rs, server/mod.rs).                                *)
(*                                                                         *)
(* Text is modelled as the code sees it: a string or a Vec<u8> is a        *)
(* sequence of bytes (0..255), the log file is the sequence of bytes at    *)
(* its path, and serialisation, parsing, trimming, splitting and base64    *)
(* are computed on those bytes.                                            *)
(***************************************************************************)
EXTENDS Integers, Sequences, FiniteSets, TLC

(***************************************************************************)
(* Bytes and strings                                                       *)
(***************************************************************************)

\* "SET", "DELETE", "COMPACT", "GET" and "base64:" as ASCII bytes.
S_SET == <<83, 69, 84>>
S_DELETE == <<68, 69, 76, 69, 84, 69>>
S_COMPACT == <<67, 79, 77, 80, 65, 67, 84>>
S_GET == <<71, 69, 84>>
S_BASE64 == <<98, 97, 115, 101, 54, 52, 58>>

\* u8::is_ascii_whitespace: space, tab, line feed, form feed, carriage return.
is_ascii_whitespace(b) == b \in {32, 9, 10, 12, 13}

\* u8::is_ascii_graphic: '!' ..= '~'.
is_ascii_graphic(b) == b \in 33..126

\* char::is_whitespace on the one-byte characters (str::trim also strips the
\* multi-byte White_Space characters; no string of the model holds one).
IsWhiteSpace(b) == b \in {32, 9, 10, 11, 12, 13}

RECURSIVE TrimStart(_)
TrimStart(s) ==
    IF s = <<>> THEN s
    ELSE IF IsWhiteSpace(Head(s)) THEN TrimStart(Tail(s))
    ELSE s

RECURSIVE TrimEnd(_)
TrimEnd(s) ==
    IF s = <<>> THEN s
    ELSE IF IsWhiteSpace(s[Len(s)]) THEN TrimEnd(SubSeq(s, 1, Len(s) - 1))
    ELSE s

\* str::trim
trim(s) == TrimEnd(TrimStart(s))

\* str::starts_with
starts_with(s, p) == Len(s) >= Len(p) /\ SubSeq(s, 1, Len(p)) = p

\* The position of the first byte b of s at or after position i, 0 if none.
RECURSIVE Find(_, _, _)
Find(s, b, i) ==
    IF i > Len(s) THEN 0
    ELSE IF s[i] = b THEN i
    ELSE Find(s, b, i + 1)

\* str::splitn(3, ' ') collected: at most three parts, the last one the
\* unsplit remainder.
splitn3(s) ==
    LET p1 == Find(s, 32, 1) IN
    IF p1 = 0 THEN <<s>>
    ELSE LET rest1 == SubSeq(s, p1 + 1, Len(s))
             p2 == Find(rest1, 32, 1)
         IN  IF p2 = 0 THEN <<SubSeq(s, 1, p1 - 1), rest1>>
             ELSE <<SubSeq(s, 1, p1 - 1),
                    SubSeq(rest1, 1, p2 - 1),
                    SubSeq(rest1, p2 + 1, Len(rest1))>>

\* String::from_utf8(..).is_ok(): the well-formed UTF-8 byte sequences.
IsCont(b) == b \in 128..191

RECURSIVE IsUtf8(_)
IsUtf8(s) ==
    IF s = <<>> THEN TRUE
    ELSE LET b == s[1]
             n == Len(s)
         IN  IF b <= 127 THEN IsUtf8(Tail(s))
             ELSE IF b \in 194..223
                  THEN n >= 2 /\ IsCont(s[2]) /\ IsUtf8(SubSeq(s, 3, n))
             ELSE IF b \in 224..239
                  THEN /\ n >= 3
                       /\ IsCont(s[2]) /\ IsCont(s[3])
                       /\ (b = 224 => s[2] >= 160)
                       /\ (b = 237 => s[2] <= 159)
                       /\ IsUtf8(SubSeq(s, 4, n))
             ELSE IF b \in 240..244
                  THEN /\ n >= 4
                       /\ IsCont(s[2]) /\ IsCont(s[3]) /\ IsCont(s[4])
                       /\ (b = 240 => s[2] >= 144)
                       /\ (b = 244 => s[2] <= 143)
                       /\ IsUtf8(SubSeq(s, 5, n))
             ELSE FALSE

(***************************************************************************)
(* base64, the STANDARD engine: the alphabet A-Z a-z 0-9 + /, '=' padding, *)
(* canonical padding and zero trailing bits required when decoding.        *)
(***************************************************************************)

B64Char(i) ==
    IF i < 26 THEN 65 + i
    ELSE IF i < 52 THEN 97 + (i - 26)
    ELSE IF i < 62 THEN 48 + (i - 52)
    ELSE IF i = 62 THEN 43
    ELSE 47

\* The 6-bit value of an alphabet byte, -1 for any other byte.
B64Val(c) ==
    IF c \in 65..90 THEN c - 65
    ELSE IF c \in 97..122 THEN c - 97 + 26
    ELSE IF c \in 48..57 THEN c - 48 + 52
    ELSE IF c = 43 THEN 62
    ELSE IF c = 47 THEN 63
    ELSE -1

RECURSIVE B64Encode(_)
B64Encode(b) ==
    LET n == Len(b) IN
    IF n = 0 THEN <<>>
    ELSE IF n = 1 THEN
        <<B64Char(b[1] \div 4), B64Char((b[1] % 4) * 16), 61, 61>>
    ELSE IF n = 2 THEN
        <<B64Char(b[1] \div 4),
          B64Char((b[1] % 4) * 16 + (b[2] \div 16)),
          B64Char((b[2] % 16) * 4), 61>>
    ELSE
        <<B64Char(b[1] \div 4),
          B64Char((b[1] % 4) * 16 + (b[2] \div 16)),
          B64Char((b[2] % 16) * 4 + (b[3] \div 64)),
          B64Char(b[3] % 64)>> \o B64Encode(SubSeq(b, 4, n))

\* BASE64.decode: [ok |-> TRUE, bytes |-> ..] or [ok |-> FALSE, bytes |-> <<>>].
B64Fail == [ok |-> FALSE, bytes |-> <<>>]

RECURSIVE B64Decode(_)
B64Decode(s) ==
    LET n == Len(s) IN
    IF n = 0 THEN [ok |-> TRUE, bytes |-> <<>>]
    ELSE IF n < 4 THEN B64Fail
    ELSE
        LET v1 == B64Val(s[1])
            v2 == B64Val(s[2])
            v3 == B64Val(s[3])
            v4 == B64Val(s[4])
        IN  IF v1 < 0 \/ v2 < 0 THEN B64Fail
            ELSE IF n = 4 /\ s[3] = 61 /\ s[4] = 61 THEN
                IF v2 % 16 = 0
                THEN [ok |-> TRUE, bytes |-> <<v1 * 4 + (v2 \div 16)>>]
                ELSE B64Fail
            ELSE IF n = 4 /\ v3 >= 0 /\ s[4] = 61 THEN
                IF v3 % 4 = 0
                THEN [ok |-> TRUE,
                      bytes |-> <<v1 * 4 + (v2 \div 16),
                                  (v2 % 16) * 16 + (v3 \div 4)>>]
                ELSE B64Fail
            ELSE IF v3 < 0 \/ v4 < 0 THEN B64Fail
            ELSE LET rest == B64Decode(SubSeq(s, 5, n)) IN
                 IF rest.ok
                 THEN [ok |-> TRUE,
                       bytes |-> <<v1 * 4 + (v2 \div 16),
                                   (v2 % 16) * 16 + (v3 \div 4),
                                   (v3 % 4) * 64 + v4>> \o rest.bytes]
                 ELSE B64Fail

(***************************************************************************)
(* storage/log.rs: LogEntry                                                *)
(***************************************************************************)

\* enum LogEntry
Set(key, value) == [type |-> "Set", key |-> key, value |-> value]
Delete(key) == [type |-> "Delete", key |-> key, value |-> <<>>]
CompactEntry == [type |-> "Compact", key |-> <<>>, value |-> <<>>]
\* Option::None of from_string
NoEntry == [type |-> "None", key |-> <<>>, value |-> <<>>]

\* LogEntry::to_string
to_string(e) ==
    IF e.type = "Set" THEN
        IF IsUtf8(e.value)
        THEN S_SET \o <<32>> \o e.key \o <<32>> \o e.value
        ELSE S_SET \o <<32>> \o e.key \o <<32>> \o S_BASE64 \o B64Encode(e.value)
    ELSE IF e.type = "Delete" THEN S_DELETE \o <<32>> \o e.key
    ELSE S_COMPACT

\* LogEntry::from_string
from_string(raw) ==
    LET line == trim(raw) IN
    IF line = <<>> THEN NoEntry
    ELSE
        LET parts == splitn3(line) IN
        IF parts[1] = S_SET THEN
            IF Len(parts) < 3 THEN NoEntry
            ELSE IF starts_with(parts[3], S_BASE64) THEN
                LET d == B64Decode(SubSeq(parts[3], 8, Len(parts[3]))) IN
                IF d.ok THEN Set(parts[2], d.bytes) ELSE NoEntry
            ELSE Set(parts[2], parts[3])
        ELSE IF parts[1] = S_DELETE THEN
            IF Len(parts) < 2 THEN NoEntry ELSE Delete(parts[2])
        ELSE IF parts[1] = S_COMPACT THEN CompactEntry
        ELSE NoEntry

(***************************************************************************)
(* storage/log.rs: LogFile.  A file is the byte sequence at its path.      *)
(***************************************************************************)

\* BufRead::lines over the file: the bytes up to each line feed, without the
\* line feed and a carriage return before it; bytes after the last line feed
\* are one more line.
RECURSIVE Lines(_)
Lines(bytes) ==
    IF bytes = <<>> THEN <<>>
    ELSE LET p == Find(bytes, 10, 1) IN
         IF p = 0 THEN <<bytes>>
         ELSE LET l == SubSeq(bytes, 1, p - 1)
                  line == IF l # <<>> /\ l[Len(l)] = 13
                          THEN SubSeq(l, 1, Len(l) - 1) ELSE l
              IN  <<line>> \o Lines(SubSeq(bytes, p + 1, Len(bytes)))

RECURSIVE ParseLines(_)
ParseLines(ls) ==
    IF ls = <<>> THEN <<>>
    ELSE LET e == from_string(Head(ls)) IN
         (IF e = NoEntry THEN <<>> ELSE <<e>>) \o ParseLines(Tail(ls))

\* LogFile::replay: io::Result<Vec<LogEntry>>; `line?` fails on a line that
\* is not UTF-8.
replay(bytes) ==
    LET ls == Lines(bytes) IN
    IF \E i \in 1..Len(ls) : ~IsUtf8(ls[i])
    THEN [ok |-> FALSE, entries |-> <<>>]
    ELSE [ok |-> TRUE, entries |-> ParseLines(ls)]

\* HashMap::insert and HashMap::remove on a map held as a function.
MapInsert(m, k, v) == [x \in DOMAIN m \cup {k} |-> IF x = k THEN v ELSE m[x]]
MapRemove(m, k) == [x \in DOMAIN m \ {k} |-> m[x]]
EmptyMap == [x \in {} |-> <<>>]

\* Option<Vec<u8>>
None == [some |-> FALSE, v |-> <<>>]
Some(v) == [some |-> TRUE, v |-> v]

\* LogFile::compact, the fold of the replayed entries into
\* HashMap<String, Option<Vec<u8>>>: the last record of each key.
RECURSIVE current_state(_, _)
current_state(entries, m) ==
    IF entries = <<>> THEN m
    ELSE LET e == Head(entries) IN
         current_state(Tail(entries),
                       IF e.type = "Set" THEN MapInsert(m, e.key, Some(e.value))
                       ELSE IF e.type = "Delete" THEN MapInsert(m, e.key, None)
                       ELSE m)

\* The orders in which a HashMap of these keys may be iterated.
Orders(S) == {f \in [1..Cardinality(S) -> S] :
                 \A i, j \in 1..Cardinality(S) : f[i] = f[j] => i = j}

\* LogFile::compact, the loop that writes the temporary file: one SET line
\* for each key whose last record is a Set.
RECURSIVE WriteState(_, _)
WriteState(m, order) ==
    IF order = <<>> THEN <<>>
    ELSE (IF m[Head(order)].some
          THEN to_string(Set(Head(order), m[Head(order)].v)) \o <<10>>
          ELSE <<>>) \o WriteState(m, Tail(order))

\* LogFile::compact: the contents the temporary file may get, one per
\* iteration order of the HashMap.
CompactedLogs(bytes) ==
    LET m == current_state(replay(bytes).entries, EmptyMap) IN
    {WriteState(m, o) : o \in Orders(DOMAIN m)}

(***************************************************************************)
(* storage/mod.rs: Database                                                *)
(***************************************************************************)

\* Database::with_log_path, the replay loop that builds the cache.
RECURSIVE BuildCache(_, _)
BuildCache(entries, m) ==
    IF entries = <<>> THEN m
    ELSE LET e == Head(entries) IN
         BuildCache(Tail(entries),
                    IF e.type = "Set" THEN MapInsert(m, e.key, e.value)
                    ELSE IF e.type = "Delete" THEN MapRemove(m, e.key)
                    ELSE m)

\* Database::get on a cache
Lookup(m, k) == IF k \in DOMAIN m THEN Some(m[k]) ELSE None

(***************************************************************************)
(* Bounds and inputs                                                       *)
(***************************************************************************)

\* The keys the callers use: "k" and "j".
Keys == {<<107>>, <<106>>}

\* The values the callers set: "ab", the empty value, the bytes 00 FF, and
\* the text "base64:QQ==".
Values == {<<97, 98>>, <<>>, <<0, 255>>, S_BASE64 \o <<81, 81, 61, 61>>}

\* Keys that the key rules exclude: the empty key, "k j" (a space), "k\n" (a
\* newline), and "kkk", longer than MaxKeyLen.
InvalidKeys == {<<>>, <<107, 32, 106>>, <<107, 10>>, <<107, 107, 107>>}

\* Every key a caller may pass to set and delete.
CallKeys == Keys \cup InvalidKeys

\* The limit on the length of a key (1 KiB), scaled to the keys above.
MaxKeyLen == 2

\* The limit on the size of a value (1 MiB), scaled: "aaaa" is too large.
MaxValueLen == 3

BigValue == <<97, 97, 97, 97>>

\* const MAX_LOG_SIZE (1024 * 1024 in the source), scaled to the short
\* records of the model so that an append can cross it.
MAX_LOG_SIZE == 30

\* The number of LogFile::append calls of one behaviour.
MaxAppends == 2

\* How many of the last bytes of a record a crash in the middle of its
\* write may cut off.
MaxTear == 2

(***************************************************************************)
(* State                                                                   *)
(***************************************************************************)

VARIABLES
    disk,          \* the bytes of the file at the log path
    tmp,           \* the file at the .tmp path: [exists, bytes]
    cache,         \* Database.cache: key -> value
    current_size,  \* LogFile.current_size
    up,            \* a Database is open on the log path
    nAppends,      \* LogFile::append calls made so far
    acked,         \* per key, the value of its last set if that returned Ok
                   \* and no set or delete of the key was started since
    dd,            \* per key, how many delete calls returned Ok in a row
    synced,        \* the Set records whose append wrote and fsynced them
    clean,         \* every set and delete call so far returned Ok, and the
                   \* process never died inside a call
    before,        \* the cache when the Database was last dropped
    fresh,         \* the Database was reopened and not used since
    cmp,           \* the cache at the last compact, until the next set/delete
    th,            \* per thread: where it is in its call, the call, calls made
    lk,            \* Database.cache's RwLock, Database.log's Mutex and the
                   \* server's Mutex<Database>
    cg,            \* what the threads have done: see InitConc
    pr,            \* per process: where it is in Database::with_log_path
    fl,            \* the processes that hold the exclusive lock on the log
    raced,         \* two processes had the log open before either locked it
    lf,            \* the files at the log path and the temp path, by inode
    svs,           \* server processes started with Server::with_paths
    hist,          \* the requests the server has answered, with the answers
    conn,          \* the connection: "open" or "closed"
    sent,          \* the requests the client has written to the connection
    queue,         \* the jobs sent to the pool's channel and not yet received
    wk,            \* per worker thread: where it is in its loop, its job
    pl,            \* the ThreadPool: its sender, how far its drop has got
    jb,            \* the jobs passed to execute: kinds, runs, order received
    pidfile,       \* the PID file: whether it exists and what it holds
    ptab,          \* the other processes named by PID files: none, own, foreign
    sv,            \* the Server: where startup, run and teardown have got
    cn,            \* per client connection: none, pending, queued, handling, ..
    call,          \* the last call on the Database: its arguments, its
                   \* result, and the index, log and length it found
    cs,            \* LogFile::compact in steps: where it is, the lines it
                   \* has still to write to the temporary file
    fx,            \* a function of the log format applied to an input:
                   \* the input, the line in between, the output
    rq             \* per client connection: the requests the client has
                   \* written and the responses the server has written

engineVars == <<disk, tmp, cache, current_size, up>>
ghostVars == <<nAppends, acked, dd, synced, clean, before, fresh, cmp>>
concVars == <<th, lk, cg>>
openVars == <<pr, fl, raced, lf, svs>>
srvVars == <<hist, conn, sent>>
poolVars == <<queue, wk, pl, jb>>
lifeVars == <<pidfile, ptab, sv, cn>>
callVars == <<call, cs, fx>>
reqVars == <<rq>>
sysVars == <<poolVars, lifeVars, callVars, reqVars>>
sideVars == <<concVars, openVars, srvVars, sysVars>>
vars == <<engineVars, ghostVars, sideVars>>

NoFile == [exists |-> FALSE, bytes |-> <<>>]
NoAck == [st |-> "none", v |-> <<>>]
NoSnap == [valid |-> FALSE, m |-> EmptyMap]

\* The number of threads that share the Database.
NThreads == 2

\* The number of calls each thread makes.
MaxCalls == 2

Threads == 1..NThreads

Idle == [pc |-> "idle", op |-> "none", k |-> <<>>, v |-> <<>>, n |-> 0]

InitConc ==
    /\ th = [t \in Threads |-> Idle]
    /\ lk = [writer |-> 0, readers |-> {}, log |-> 0, storage |-> 0]
    /\ cg = [setters |-> [k \in Keys |-> {}],   \* threads that have set k
             users |-> [k \in Keys |-> {}],     \* threads that have used k
             last |-> [k \in Keys |-> NoAck],   \* value of the last call on k,
                                                \* if that was a set
             deleted |-> {},    \* keys a delete was called on
             idx |-> <<>>,      \* the Set entries in the order of cache.insert
             app |-> <<>>]      \* the Set entries in the order of append

InitEngine ==
    /\ disk = <<>>
    /\ tmp = NoFile
    /\ cache = EmptyMap
    /\ current_size = 0
    /\ up = TRUE

InitGhost ==
    /\ nAppends = 0
    /\ acked = [k \in CallKeys |-> NoAck]
    /\ dd = [k \in CallKeys |-> 0]
    /\ synced = {}
    /\ clean = TRUE
    /\ before = EmptyMap
    /\ fresh = FALSE
    /\ cmp = NoSnap

\* The number of processes that open the same log path.
NProcs == 2

\* The number of with_log_path calls each process makes.
MaxOpens == 2

Procs == 1..NProcs

NotOpening == [pc |-> "idle", res |-> "none", cache |-> EmptyMap, n |-> 0]

\* The log file at its path (inode 1), no temp file, no process with the
\* file open, no compaction started.
OneLog ==
    [live |-> 1, tmp |-> 0, fd |-> [p \in Procs |-> 0], next |-> 1, nc |-> 0]

\* The paths servers are given, and the path of Database::new().
PidPaths == {"a.pid", "b.pid"}

LogPaths == {"a.log", "b.log"}

DefaultLog == "keystonelight.log"

\* No server process has been started; no PID file, no lock on a log, the
\* port is free (0: none).
NoServers ==
    [arg |-> [p \in Procs |-> [pid_file |-> "a.pid", log_file |-> "a.log"]],
     pc |-> [p \in Procs |-> "none"],
     res |-> [p \in Procs |-> "none"],
     pidf |-> [f \in PidPaths |-> 0],
     lock |-> [f \in LogPaths \cup {DefaultLog} |-> 0],
     log |-> [p \in Procs |-> "none"],
     port |-> 0,
     wrote |-> [f \in LogPaths \cup {DefaultLog} |-> {}]]

InitOpen ==
    /\ pr = [p \in Procs |-> NotOpening]
    /\ fl = {}
    /\ raced = FALSE
    /\ lf = OneLog
    /\ svs = NoServers

InitServer ==
    /\ hist = <<>>
    /\ conn = "open"
    /\ sent = <<>>

\* The number of worker threads of the pool.
NWorkers == 2

\* The number of jobs passed to execute.
MaxJobs == 3

Workers == 1..NWorkers

\* ThreadPool::new
InitPool ==
    /\ queue = <<>>
    /\ wk = [w \in Workers |-> [pc |-> "recv", job |-> 0]]
    /\ pl = [sender |-> TRUE, state |-> "live", joining |-> 0]
    /\ jb = [kinds |-> <<>>, runs |-> <<>>, taken |-> <<>>]

\* process::id() of the server, and the PIDs a PID file left behind may hold.
MyPid == 7
OtherPids == {5, 6}

\* The number of clients that connect to the server.
MaxConns == 3

Conns == 1..MaxConns

NoPidFile == [exists |-> FALSE, valid |-> FALSE, pid |-> 0]
PidFileOf(p) == [exists |-> TRUE, valid |-> TRUE, pid |-> p]

\* A PID file whose content does not parse as a u32.
GarbagePidFile == [exists |-> TRUE, valid |-> FALSE, pid |-> 0]

\* A Server that has not been constructed: `first` keeps the PID file and
\* the processes that startup found.
NoServer ==
    [pc |-> "off", res |-> "none", pid |-> 0, running |-> FALSE,
     sig |-> "none", first |-> NoPidFile, alive |-> {}]

InitLife ==
    /\ pidfile = NoPidFile
    /\ ptab = [p \in OtherPids |-> "none"]
    /\ sv = NoServer
    /\ cn = [c \in Conns |-> "none"]

\* No call has been made on the Database.
NoCall ==
    [op |-> "none", key |-> <<>>, value |-> <<>>, res |-> "none",
     cache |-> EmptyMap, disk |-> <<>>, size |-> 0, n |-> 0]

\* LogFile::compact is not running.
NoCompaction == [pc |-> "idle", lines |-> <<>>]

\* No function has been applied.
NoFx == [fn |-> "none", in |-> <<>>, line |-> <<>>, out |-> <<>>]

\* No client has written a request.
NoRequests ==
    [sent |-> [c \in Conns |-> 0], answered |-> [c \in Conns |-> 0]]

InitCall == call = NoCall /\ cs = NoCompaction /\ fx = NoFx /\ rq = NoRequests

Init ==
    /\ InitEngine /\ InitGhost /\ InitConc /\ InitOpen /\ InitServer
    /\ InitPool /\ InitLife /\ InitCall

(***************************************************************************)
(* LogFile::append, by outcome:                                            *)
(*   "ok"       the line is written and fsynced; a log longer than         *)
(*              MAX_LOG_SIZE is compacted before the call returns;         *)
(*   "errWrite" the first write_all fails, nothing is written;             *)
(*   "errSync"  the line is written, sync_all fails.                       *)
(***************************************************************************)
Outcomes == {"ok", "errWrite", "errSync"}

append(entry, out) ==
    LET line == to_string(entry) \o <<10>>
        size == current_size + Len(line)
    IN  IF out = "errWrite" THEN UNCHANGED <<disk, tmp, current_size>>
        ELSE IF out = "errSync" THEN
            /\ disk' = disk \o line
            /\ current_size' = size
            /\ UNCHANGED tmp
        ELSE IF size > MAX_LOG_SIZE THEN
            \E c \in CompactedLogs(disk \o line) :
                /\ disk' = c
                /\ tmp' = NoFile
                /\ current_size' = Len(c)
        ELSE
            /\ disk' = disk \o line
            /\ current_size' = size
            /\ UNCHANGED tmp

\* What Database::set would store if it cached the value as the log line
\* carries it (a mutation of StoredValue).
StoredValueAsLogged(k, value) == from_string(to_string(Set(k, value))).value

\* Database::set, `let value = value.to_vec()`: the bytes put in the cache.
StoredValue(k, value) == value

\* Database::set
DbSet(k, v, out) ==
    /\ up
    /\ nAppends < MaxAppends
    /\ cache' = MapInsert(cache, k, StoredValue(k, v))
    /\ append(Set(k, v), out)
    /\ nAppends' = nAppends + 1
    /\ acked' = [acked EXCEPT ![k] =
                    IF out = "ok" THEN [st |-> "live", v |-> v] ELSE NoAck]
    /\ dd' = [dd EXCEPT ![k] = 0]
    /\ synced' = IF out = "ok" THEN synced \cup {Set(k, v)} ELSE synced
    /\ clean' = (clean /\ out = "ok")
    /\ fresh' = FALSE
    /\ before' = EmptyMap
    /\ cmp' = NoSnap
    /\ UNCHANGED up

\* A delete that appends its DELETE record whether or not the key is in the
\* cache (a mutation of DbDelete).
DbDeleteAlways(k, out) ==
    /\ up
    /\ nAppends < MaxAppends
    /\ cache' = MapRemove(cache, k)
    /\ append(Delete(k), out)
    /\ nAppends' = nAppends + 1
    /\ acked' = [acked EXCEPT ![k] = NoAck]
    /\ dd' = [dd EXCEPT ![k] = IF out = "ok" THEN (IF @ < 2 THEN @ + 1 ELSE 2) ELSE 0]
    /\ clean' = (clean /\ out = "ok")
    /\ fresh' = FALSE
    /\ before' = EmptyMap
    /\ cmp' = NoSnap
    /\ UNCHANGED <<up, synced>>

\* Database::delete
DbDelete(k, out) ==
    /\ up
    /\ IF k \in DOMAIN cache
       THEN /\ nAppends < MaxAppends
            /\ cache' = MapRemove(cache, k)
            /\ append(Delete(k), out)
            /\ nAppends' = nAppends + 1
       ELSE /\ out = "ok"
            /\ UNCHANGED <<cache, disk, tmp, current_size, nAppends>>
    /\ acked' = [acked EXCEPT ![k] = NoAck]
    /\ dd' = [dd EXCEPT ![k] = IF out = "ok" THEN (IF @ < 2 THEN @ + 1 ELSE 2) ELSE 0]
    /\ clean' = (clean /\ out = "ok")
    /\ fresh' = FALSE
    /\ before' = EmptyMap
    /\ cmp' = NoSnap
    /\ UNCHANGED <<up, synced>>

\* Database::compact -> LogFile::compact
DbCompact ==
    /\ up
    /\ \E c \in CompactedLogs(disk) :
           /\ disk' = c
           /\ tmp' = NoFile
    /\ cmp' = [valid |-> TRUE, m |-> cache]
    /\ fresh' = FALSE
    /\ before' = EmptyMap
    /\ UNCHANGED <<cache, current_size, up, nAppends, acked, dd, synced, clean>>

\* The Database is dropped, or the process dies outside a call.
Drop ==
    /\ up
    /\ up' = FALSE
    /\ before' = cache
    /\ cache' = EmptyMap
    /\ current_size' = 0
    /\ fresh' = FALSE
    /\ UNCHANGED <<disk, tmp, nAppends, acked, dd, synced, clean, cmp>>

\* The process dies inside LogFile::append, after write_all has written all
\* but the last n bytes of the record `entry` of a set or delete of key k.
CrashInAppend(k, entry, n) ==
    LET line == to_string(entry) \o <<10>> IN
    /\ up
    /\ nAppends < MaxAppends
    /\ entry.type = "Delete" => k \in DOMAIN cache
    /\ n \in 1..Len(line)
    /\ disk' = disk \o SubSeq(line, 1, Len(line) - n)
    /\ up' = FALSE
    /\ before' = cache
    /\ cache' = EmptyMap
    /\ current_size' = 0
    /\ nAppends' = nAppends + 1
    /\ acked' = [acked EXCEPT ![k] = NoAck]
    /\ dd' = [dd EXCEPT ![k] = 0]
    /\ clean' = FALSE
    /\ fresh' = FALSE
    /\ cmp' = NoSnap
    /\ UNCHANGED <<tmp, synced>>

\* The process dies inside LogFile::compact: before the rename (the
\* temporary file is on disk, still empty or written in full; nothing reads
\* it afterwards), or after the rename.
CrashInCompact(renamed) ==
    /\ up
    /\ \E c \in CompactedLogs(disk) :
           IF renamed
           THEN disk' = c /\ tmp' = NoFile
           ELSE /\ \E n \in {0, Len(c)} :
                       tmp' = [exists |-> TRUE, bytes |-> SubSeq(c, 1, n)]
                /\ UNCHANGED disk
    /\ up' = FALSE
    /\ before' = cache
    /\ cache' = EmptyMap
    /\ current_size' = 0
    /\ fresh' = FALSE
    /\ clean' = FALSE
    /\ UNCHANGED <<nAppends, acked, dd, synced, cmp>>

\* Database::with_log_path on the log path (LogFile::with_path, replay, and
\* the loop that builds the cache).
Open ==
    /\ ~up
    /\ LET r == replay(disk) IN
       IF r.ok
       THEN /\ up' = TRUE
            /\ cache' = BuildCache(r.entries, EmptyMap)
            /\ current_size' = Len(disk)
            /\ fresh' = TRUE
       ELSE UNCHANGED <<up, cache, current_size, fresh>>
    /\ acked' = [k \in CallKeys |->
                    IF acked[k].st = "none" THEN NoAck
                    ELSE [st |-> "restarted", v |-> acked[k].v]]
    /\ UNCHANGED <<disk, tmp, nAppends, dd, synced, clean, before, cmp>>

Next ==
    \/ \E k \in Keys, v \in Values, out \in Outcomes :
           DbSet(k, v, out) /\ UNCHANGED sideVars
    \/ \E k \in Keys, out \in Outcomes : DbDelete(k, out) /\ UNCHANGED sideVars
    \/ DbCompact /\ UNCHANGED sideVars
    \/ Drop /\ UNCHANGED sideVars
    \/ \E k \in Keys, v \in Values, n \in 1..MaxTear :
           CrashInAppend(k, Set(k, v), n) /\ UNCHANGED sideVars
    \/ \E k \in Keys, n \in 1..MaxTear :
           CrashInAppend(k, Delete(k), n) /\ UNCHANGED sideVars
    \/ \E renamed \in BOOLEAN : CrashInCompact(renamed) /\ UNCHANGED sideVars
    \/ Open /\ UNCHANGED sideVars

Spec == Init /\ [][Next]_vars

(***************************************************************************)
(* Threads that share one Database (Arc<Database>).  Each call is split at *)
(* its lock acquisitions: Database.cache is an RwLock, Database.log a      *)
(* Mutex; the guards are released when the call returns.                   *)
(***************************************************************************)

\* The values the threads set: "ab" and the empty value.
ConcValues == {<<97, 98>>, <<>>}

Quiescent == \A t \in Threads : th[t].pc = "idle"

CanCall(t) == up /\ th[t].pc = "idle" /\ th[t].n < MaxCalls

Goto(t, pc) == th' = [th EXCEPT ![t].pc = pc]

Return(t) == th' = [th EXCEPT ![t] = [Idle EXCEPT !.n = th[t].n + 1]]

\* Database::set, `self.cache.write()`: waits for the readers and the writer.
SetWrite(t, k, v) ==
    /\ CanCall(t)
    /\ lk.writer = 0 /\ lk.readers = {}
    /\ lk' = [lk EXCEPT !.writer = t]
    /\ th' = [th EXCEPT ![t] = [pc |-> "set_insert", op |-> "set", k |-> k,
                                v |-> v, n |-> th[t].n]]
    /\ cg' = [cg EXCEPT !.last[k] = NoAck]
    /\ UNCHANGED <<engineVars, ghostVars>>

\* Database::set, `cache.insert(key, value)`
SetInsert(t) ==
    /\ th[t].pc = "set_insert"
    /\ cache' = MapInsert(cache, th[t].k, StoredValue(th[t].k, th[t].v))
    /\ cg' = [cg EXCEPT !.idx = Append(@, Set(th[t].k, th[t].v))]
    /\ Goto(t, "set_lock")
    /\ UNCHANGED <<disk, tmp, current_size, up, ghostVars, lk>>

\* Database::set and Database::delete, `self.log.lock()`
LogLock(t) ==
    /\ th[t].pc \in {"set_lock", "del_lock"}
    /\ lk.log = 0
    /\ lk' = [lk EXCEPT !.log = t]
    /\ Goto(t, IF th[t].pc = "set_lock" THEN "set_append" ELSE "del_append")
    /\ UNCHANGED <<engineVars, ghostVars, cg>>

\* Database::set, `log.append(&LogEntry::Set(..))`
SetAppend(t) ==
    /\ th[t].pc = "set_append"
    /\ append(Set(th[t].k, th[t].v), "ok")
    /\ cg' = [cg EXCEPT !.app = Append(@, Set(th[t].k, th[t].v))]
    /\ Goto(t, "set_ret")
    /\ UNCHANGED <<cache, up, ghostVars, lk>>

\* Database::set returns Ok: the log guard and the cache guard are dropped.
SetRet(t) ==
    /\ th[t].pc = "set_ret"
    /\ lk' = [lk EXCEPT !.writer = 0, !.log = 0]
    /\ cg' = [cg EXCEPT !.last[th[t].k] = [st |-> "live", v |-> th[t].v],
                        !.setters[th[t].k] = @ \cup {<<t, th[t].v>>},
                        !.users[th[t].k] = @ \cup {t}]
    /\ Return(t)
    /\ UNCHANGED <<engineVars, ghostVars>>

\* Database::delete, `self.cache.write()`
DelWrite(t, k) ==
    /\ CanCall(t)
    /\ lk.writer = 0 /\ lk.readers = {}
    /\ lk' = [lk EXCEPT !.writer = t]
    /\ th' = [th EXCEPT ![t] = [pc |-> "del_remove", op |-> "delete", k |-> k,
                                v |-> <<>>, n |-> th[t].n]]
    /\ cg' = [cg EXCEPT !.last[k] = NoAck, !.deleted = @ \cup {k}]
    /\ UNCHANGED <<engineVars, ghostVars>>

\* Database::delete, `if cache.remove(key).is_some()`
DelRemove(t) ==
    /\ th[t].pc = "del_remove"
    /\ cache' = MapRemove(cache, th[t].k)
    /\ Goto(t, IF th[t].k \in DOMAIN cache THEN "del_lock" ELSE "del_ret")
    /\ UNCHANGED <<disk, tmp, current_size, up, ghostVars, lk, cg>>

\* Database::delete, `log.append(&LogEntry::Delete(..))`
DelAppend(t) ==
    /\ th[t].pc = "del_append"
    /\ append(Delete(th[t].k), "ok")
    /\ Goto(t, "del_ret")
    /\ UNCHANGED <<cache, up, ghostVars, lk, cg>>

\* Database::delete returns Ok.
DelRet(t) ==
    /\ th[t].pc = "del_ret"
    /\ lk' = [lk EXCEPT !.writer = 0, !.log = IF @ = t THEN 0 ELSE @]
    /\ cg' = [cg EXCEPT !.users[th[t].k] = @ \cup {t}]
    /\ Return(t)
    /\ UNCHANGED <<engineVars, ghostVars>>

\* Database::get, `self.cache.read()` and the lookup.
GetRead(t, k) ==
    /\ CanCall(t)
    /\ lk.writer = 0
    /\ lk' = [lk EXCEPT !.readers = @ \cup {t}]
    /\ th' = [th EXCEPT ![t] = [pc |-> "get_ret", op |-> "get", k |-> k,
                                v |-> Lookup(cache, k).v, n |-> th[t].n]]
    /\ UNCHANGED <<engineVars, ghostVars, cg>>

\* Database::get returns: the read guard is dropped.
GetRet(t) ==
    /\ th[t].pc = "get_ret"
    /\ lk' = [lk EXCEPT !.readers = @ \ {t}]
    /\ cg' = [cg EXCEPT !.users[th[t].k] = @ \cup {t}]
    /\ Return(t)
    /\ UNCHANGED <<engineVars, ghostVars>>

\* Database::compact, `self.log.lock()`
CmpLock(t) ==
    /\ CanCall(t)
    /\ lk.log = 0
    /\ lk' = [lk EXCEPT !.log = t]
    /\ th' = [th EXCEPT ![t] = [pc |-> "cmp_run", op |-> "compact", k |-> <<>>,
                                v |-> <<>>, n |-> th[t].n]]
    /\ UNCHANGED <<engineVars, ghostVars, cg>>

\* Database::compact, `log.compact()`
CmpRun(t) ==
    /\ th[t].pc = "cmp_run"
    /\ \E c \in CompactedLogs(disk) :
           /\ disk' = c
           /\ tmp' = NoFile
    /\ Goto(t, "cmp_ret")
    /\ UNCHANGED <<cache, current_size, up, ghostVars, lk, cg>>

\* Database::compact returning with the log guard still held (a mutation of
\* CmpRet).
CmpRetKeepsLog(t) ==
    /\ th[t].pc = "cmp_ret"
    /\ Return(t)
    /\ UNCHANGED <<engineVars, ghostVars, cg, lk>>

\* Database::compact returns Ok.
CmpRet(t) ==
    /\ th[t].pc = "cmp_ret"
    /\ lk' = [lk EXCEPT !.log = 0]
    /\ Return(t)
    /\ UNCHANGED <<engineVars, ghostVars, cg>>

\* The threads have returned and the Database is dropped.
ConcDrop ==
    /\ Quiescent
    /\ up
    /\ up' = FALSE
    /\ cache' = EmptyMap
    /\ current_size' = 0
    /\ UNCHANGED <<disk, tmp, ghostVars, concVars>>

\* Database::with_log_path on the same log path.
ConcOpen ==
    /\ ~up
    /\ replay(disk).ok
    /\ up' = TRUE
    /\ cache' = BuildCache(replay(disk).entries, EmptyMap)
    /\ current_size' = Len(disk)
    /\ UNCHANGED <<disk, tmp, ghostVars, concVars>>

NextConc ==
    \/ \E t \in Threads, k \in Keys, v \in ConcValues : SetWrite(t, k, v)
           /\ UNCHANGED <<openVars, srvVars, sysVars>>
    \/ \E t \in Threads : SetInsert(t)
           /\ UNCHANGED <<openVars, srvVars, sysVars>>
    \/ \E t \in Threads : LogLock(t)
           /\ UNCHANGED <<openVars, srvVars, sysVars>>
    \/ \E t \in Threads : SetAppend(t)
           /\ UNCHANGED <<openVars, srvVars, sysVars>>
    \/ \E t \in Threads : SetRet(t)
           /\ UNCHANGED <<openVars, srvVars, sysVars>>
    \/ \E t \in Threads, k \in Keys : DelWrite(t, k)
           /\ UNCHANGED <<openVars, srvVars, sysVars>>
    \/ \E t \in Threads : DelRemove(t)
           /\ UNCHANGED <<openVars, srvVars, sysVars>>
    \/ \E t \in Threads : DelAppend(t)
           /\ UNCHANGED <<openVars, srvVars, sysVars>>
    \/ \E t \in Threads : DelRet(t)
           /\ UNCHANGED <<openVars, srvVars, sysVars>>
    \/ \E t \in Threads, k \in Keys : GetRead(t, k)
           /\ UNCHANGED <<openVars, srvVars, sysVars>>
    \/ \E t \in Threads : GetRet(t)
           /\ UNCHANGED <<openVars, srvVars, sysVars>>
    \/ \E t \in Threads : CmpLock(t)
           /\ UNCHANGED <<openVars, srvVars, sysVars>>
    \/ \E t \in Threads : CmpRun(t)
           /\ UNCHANGED <<openVars, srvVars, sysVars>>
    \/ \E t \in Threads : CmpRet(t)
           /\ UNCHANGED <<openVars, srvVars, sysVars>>
    \/ ConcDrop
           /\ UNCHANGED <<openVars, srvVars, sysVars>>
    \/ ConcOpen
           /\ UNCHANGED <<openVars, srvVars, sysVars>>

SpecConc == Init /\ [][NextConc]_vars

(***************************************************************************)
(* Connection handlers that share the server's Arc<Mutex<Database>>.  Each *)
(* arm of handle_client takes `storage.lock().unwrap()` before it calls    *)
(* the Database, and drops the guard when the arm ends.                    *)
(***************************************************************************)

\* handle_client: a command has been read and parsed; the arm has not yet
\* taken the storage mutex.
HcCommand(t, op, k, v) ==
    /\ CanCall(t)
    /\ lk.storage # t
    /\ th' = [th EXCEPT ![t] = [pc |-> "hc_lock", op |-> op, k |-> k,
                                v |-> v, n |-> th[t].n]]
    /\ UNCHANGED <<engineVars, ghostVars, lk, cg>>

\* handle_client, `storage.lock().unwrap()` in every arm, Get included.
HcLock(t) ==
    /\ th[t].pc = "hc_lock"
    /\ lk.storage = 0
    /\ lk' = [lk EXCEPT !.storage = t]
    /\ Goto(t, "hc_call")
    /\ UNCHANGED <<engineVars, ghostVars, cg>>

\* handle_client, `storage.set(&key, &value)`: Database::set takes
\* `self.cache.write()`.
HcSet(t) ==
    /\ th[t].pc = "hc_call" /\ th[t].op = "set"
    /\ lk.writer = 0 /\ lk.readers = {}
    /\ lk' = [lk EXCEPT !.writer = t]
    /\ cg' = [cg EXCEPT !.last[th[t].k] = NoAck]
    /\ Goto(t, "set_insert")
    /\ UNCHANGED <<engineVars, ghostVars>>

\* handle_client, `storage.delete(&key)`: Database::delete takes
\* `self.cache.write()`.
HcDelete(t) ==
    /\ th[t].pc = "hc_call" /\ th[t].op = "delete"
    /\ lk.writer = 0 /\ lk.readers = {}
    /\ lk' = [lk EXCEPT !.writer = t]
    /\ cg' = [cg EXCEPT !.last[th[t].k] = NoAck, !.deleted = @ \cup {th[t].k}]
    /\ Goto(t, "del_remove")
    /\ UNCHANGED <<engineVars, ghostVars>>

\* handle_client, `storage.get(&key)`: Database::get takes
\* `self.cache.read()` and looks the key up.
HcGet(t) ==
    /\ th[t].pc = "hc_call" /\ th[t].op = "get"
    /\ lk.writer = 0
    /\ lk' = [lk EXCEPT !.readers = @ \cup {t}]
    /\ th' = [th EXCEPT ![t].pc = "get_ret", ![t].v = Lookup(cache, th[t].k).v]
    /\ UNCHANGED <<engineVars, ghostVars, cg>>

\* handle_client, `storage.compact()`: Database::compact takes
\* `self.log.lock()`.
HcCompact(t) ==
    /\ th[t].pc = "hc_call" /\ th[t].op = "compact"
    /\ lk.log = 0
    /\ lk' = [lk EXCEPT !.log = t]
    /\ Goto(t, "cmp_run")
    /\ UNCHANGED <<engineVars, ghostVars, cg>>

\* handle_client: the arm ends and the storage guard is dropped.
HcUnlock(t) ==
    /\ th[t].pc = "idle"
    /\ lk.storage = t
    /\ lk' = [lk EXCEPT !.storage = 0]
    /\ UNCHANGED <<engineVars, ghostVars, th, cg>>

\* The commands a handler parses, and the values of its SET commands: "ab"
\* and one long enough for the third append to cross MAX_LOG_SIZE.
HcValues == {<<97, 98>>, BigValue}

HcCommands ==
    {[op |-> "set", k |-> k, v |-> v] : k \in Keys, v \in HcValues}
        \cup {[op |-> o, k |-> k, v |-> <<>>] : o \in {"get", "delete"},
                                                k \in Keys}
        \cup {[op |-> "compact", k |-> <<>>, v |-> <<>>]}

\* What one handler thread does once it has read a command.
HandlerStep(t) ==
    /\ \/ HcLock(t) \/ HcSet(t) \/ HcDelete(t) \/ HcGet(t) \/ HcCompact(t)
       \/ SetInsert(t) \/ LogLock(t) \/ SetAppend(t) \/ SetRet(t)
       \/ DelRemove(t) \/ DelAppend(t) \/ DelRet(t) \/ GetRet(t)
       \/ CmpRun(t) \/ CmpRet(t) \/ HcUnlock(t)
    /\ UNCHANGED <<openVars, srvVars, sysVars>>

NextHandlers ==
    \/ \E t \in Threads, c \in HcCommands : HcCommand(t, c.op, c.k, c.v)
           /\ UNCHANGED <<openVars, srvVars, sysVars>>
    \/ \E t \in Threads : HcLock(t)
           /\ UNCHANGED <<openVars, srvVars, sysVars>>
    \/ \E t \in Threads : HcSet(t)
           /\ UNCHANGED <<openVars, srvVars, sysVars>>
    \/ \E t \in Threads : HcDelete(t)
           /\ UNCHANGED <<openVars, srvVars, sysVars>>
    \/ \E t \in Threads : HcGet(t)
           /\ UNCHANGED <<openVars, srvVars, sysVars>>
    \/ \E t \in Threads : HcCompact(t)
           /\ UNCHANGED <<openVars, srvVars, sysVars>>
    \/ \E t \in Threads : SetInsert(t)
           /\ UNCHANGED <<openVars, srvVars, sysVars>>
    \/ \E t \in Threads : LogLock(t)
           /\ UNCHANGED <<openVars, srvVars, sysVars>>
    \/ \E t \in Threads : SetAppend(t)
           /\ UNCHANGED <<openVars, srvVars, sysVars>>
    \/ \E t \in Threads : SetRet(t)
           /\ UNCHANGED <<openVars, srvVars, sysVars>>
    \/ \E t \in Threads : DelRemove(t)
           /\ UNCHANGED <<openVars, srvVars, sysVars>>
    \/ \E t \in Threads : DelAppend(t)
           /\ UNCHANGED <<openVars, srvVars, sysVars>>
    \/ \E t \in Threads : DelRet(t)
           /\ UNCHANGED <<openVars, srvVars, sysVars>>
    \/ \E t \in Threads : GetRet(t)
           /\ UNCHANGED <<openVars, srvVars, sysVars>>
    \/ \E t \in Threads : CmpRun(t)
           /\ UNCHANGED <<openVars, srvVars, sysVars>>
    \/ \E t \in Threads : CmpRet(t)
           /\ UNCHANGED <<openVars, srvVars, sysVars>>
    \/ \E t \in Threads : HcUnlock(t)
           /\ UNCHANGED <<openVars, srvVars, sysVars>>

SpecHandlers == Init /\ [][NextHandlers]_vars

\* The condition under which HandlerStep(t) can be taken: the lock that
\* the handler's next statement acquires is free (a read lock needs no
\* writer, a write lock neither a writer nor readers); a statement that
\* acquires nothing can always run.
Ready(t) ==
    CASE th[t].pc = "idle" -> lk.storage = t
      [] th[t].pc = "hc_lock" -> lk.storage = 0
      [] th[t].pc = "hc_call" /\ th[t].op \in {"set", "delete"} ->
             lk.writer = 0 /\ lk.readers = {}
      [] th[t].pc = "hc_call" /\ th[t].op = "get" -> lk.writer = 0
      [] th[t].pc = "hc_call" /\ th[t].op = "compact" -> lk.log = 0
      [] th[t].pc \in {"set_lock", "del_lock"} -> lk.log = 0
      [] OTHER -> TRUE

\* A handler that has read a command runs on: the pool's worker is a thread
\* of its own, and a mutex that is free is handed to a thread waiting for
\* it.  This is weak fairness of HandlerStep(t), with its enabling
\* condition written out as Ready(t).
SpecHandlersLive ==
    /\ SpecHandlers
    /\ \A t \in Threads :
           []<>(~Ready(t)) \/ []<><<HandlerStep(t)>>_vars

(***************************************************************************)
(* Processes that call Database::with_log_path on the same log path.  A    *)
(* process that got its Database keeps it until every call in progress has *)
(* returned.                                                               *)
(***************************************************************************)

\* The logs found at the path: no record, one SET, a SET and a DELETE.
Logs ==
    {<<>>,
     to_string(Set(<<107>>, <<97, 98>>)) \o <<10>>,
     to_string(Set(<<107>>, <<0, 255>>)) \o <<10>>
         \o to_string(Delete(<<107>>)) \o <<10>>}

InitRace ==
    /\ disk \in Logs
    /\ tmp = NoFile
    /\ cache = EmptyMap
    /\ current_size = 0
    /\ up = FALSE
    /\ InitGhost /\ InitConc /\ InitOpen /\ InitServer /\ InitPool /\ InitLife
    /\ InitCall

\* LogFile::with_path, `OpenOptions::new().create(true)...open(&path)`
OpenFile(p) ==
    /\ pr[p].pc = "idle"
    /\ pr[p].n < MaxOpens
    /\ pr' = [pr EXCEPT ![p].pc = "opened"]
    /\ raced' = (raced \/ \E q \in Procs \ {p} : pr[q].pc = "opened")
    /\ UNCHANGED <<engineVars, ghostVars, concVars, fl, lf, svs, srvVars, sysVars>>

\* A lock request that is granted whoever holds the lock.
try_lock_unchecked(p) == TRUE

\* `file.try_lock_exclusive()` of process p, flock(LOCK_EX | LOCK_NB): it
\* fails while another open file of the log holds the lock.
try_lock_exclusive(p) == fl \ {p} = {}

\* LogFile::with_path, `if let Err(e) = file.try_lock_exclusive()`: on Err
\* the call returns ErrorKind::AlreadyExists and the file is closed.
TryLock(p) ==
    /\ pr[p].pc = "opened"
    /\ IF try_lock_exclusive(p)
       THEN /\ fl' = fl \cup {p}
            /\ pr' = [pr EXCEPT ![p].pc = "locked"]
       ELSE /\ fl' = fl
            /\ pr' = [pr EXCEPT ![p].pc = "ret", ![p].res = "AlreadyExists",
                                ![p].n = @ + 1]
    /\ UNCHANGED <<engineVars, ghostVars, concVars, raced, lf, svs, srvVars,
                   sysVars>>

\* The rest of Database::with_log_path: metadata, sync_all, replay and the
\* cache built from it.  A failed replay closes the file, which unlocks it.
ReplayLog(p) ==
    /\ pr[p].pc = "locked"
    /\ LET r == replay(disk) IN
       IF r.ok
       THEN /\ pr' = [pr EXCEPT ![p].pc = "ret", ![p].res = "Ok",
                                ![p].cache = BuildCache(r.entries, EmptyMap),
                                ![p].n = @ + 1]
            /\ fl' = fl
       ELSE /\ pr' = [pr EXCEPT ![p].pc = "ret", ![p].res = "InvalidData",
                                ![p].n = @ + 1]
            /\ fl' = fl \ {p}
    /\ UNCHANGED <<engineVars, ghostVars, concVars, raced, lf, svs, srvVars,
                   sysVars>>

\* The caller drops the io::Error it got.
DropError(p) ==
    /\ pr[p].pc = "ret"
    /\ pr[p].res # "Ok"
    /\ pr' = [pr EXCEPT ![p].pc = "idle", ![p].res = "none"]
    /\ raced' = FALSE
    /\ UNCHANGED <<engineVars, ghostVars, concVars, fl, lf, svs, srvVars, sysVars>>

\* The caller drops the Database it got, no call being in progress: the log
\* file is closed, which releases its lock.
DropDatabase(p) ==
    /\ pr[p].pc = "ret"
    /\ pr[p].res = "Ok"
    /\ \A q \in Procs : pr[q].pc \in {"idle", "ret"}
    /\ pr' = [pr EXCEPT ![p].pc = "idle", ![p].res = "none",
                        ![p].cache = EmptyMap]
    /\ fl' = fl \ {p}
    /\ raced' = FALSE
    /\ UNCHANGED <<engineVars, ghostVars, concVars, lf, svs, srvVars, sysVars>>

NextOpen ==
    \/ \E p \in Procs : OpenFile(p)
    \/ \E p \in Procs : TryLock(p)
    \/ \E p \in Procs : ReplayLog(p)
    \/ \E p \in Procs : DropError(p)
    \/ \E p \in Procs : DropDatabase(p)

SpecOpen == InitRace /\ [][NextOpen]_vars

(***************************************************************************)
(* Processes that open the same log path while an open engine compacts.    *)
(* flock locks belong to the open file, that is to the inode it was opened *)
(* on: lf.live is the inode at the log path, lf.tmp the one at the temp    *)
(* path (0: none), lf.fd[p] the inode of process p's `self.file`.  A       *)
(* process in fl holds the lock of the inode lf.fd[p].  What compaction    *)
(* writes is modelled by CompactedLogs; here the log's contents stay.      *)
(***************************************************************************)

\* The number of compactions started.
MaxCompactions == 2

notRelock == <<engineVars, ghostVars, concVars, raced, svs, srvVars, sysVars>>

\* The engine of process p is open: with_log_path has returned Ok and the
\* Database is not dropped (it may be inside compact).
EngineOpen(p) ==
    pr[p].pc \in {"open", "c_unlock", "c_swap", "c_rename", "c_reopen",
                  "c_relock"}

\* flock(LOCK_EX | LOCK_NB) on process p's file: granted unless another
\* process holds the lock of the same inode.
flock_free(p) == \A q \in fl \ {p} : lf.fd[q] # lf.fd[p]

\* LogFile::with_path, `OpenOptions::new().create(true)...open(&path)`
RlOpenFile(p) ==
    /\ pr[p].pc = "idle"
    /\ pr[p].n < MaxOpens
    /\ pr' = [pr EXCEPT ![p].pc = "opened"]
    /\ lf' = [lf EXCEPT !.fd[p] = lf.live]
    /\ UNCHANGED <<notRelock, fl>>

\* LogFile::with_path from `file.try_lock_exclusive()` on, and the rest of
\* Database::with_log_path (replay, cache).  On Err the file is closed.
RlTryLock(p) ==
    /\ pr[p].pc = "opened"
    /\ IF flock_free(p)
       THEN /\ fl' = fl \cup {p}
            /\ pr' = [pr EXCEPT ![p].pc = "open", ![p].res = "Ok",
                         ![p].cache = BuildCache(replay(disk).entries,
                                                 EmptyMap),
                         ![p].n = @ + 1]
            /\ lf' = lf
       ELSE /\ fl' = fl
            /\ pr' = [pr EXCEPT ![p].pc = "idle", ![p].res = "AlreadyExists",
                                ![p].n = @ + 1]
            /\ lf' = [lf EXCEPT !.fd[p] = 0]
    /\ UNCHANGED notRelock

\* LogFile::compact up to `temp_file.sync_all()`: the temp file is created,
\* or truncated if one is there, and written.
RlWriteTemp(p) ==
    /\ pr[p].pc = "open"
    /\ lf.nc < MaxCompactions
    /\ pr' = [pr EXCEPT ![p].pc = "c_unlock"]
    /\ lf' = IF lf.tmp # 0 THEN [lf EXCEPT !.nc = @ + 1]
             ELSE [lf EXCEPT !.tmp = lf.next + 1, !.next = @ + 1,
                             !.nc = @ + 1]
    /\ UNCHANGED <<notRelock, fl>>

\* LogFile::compact, `fs2::FileExt::unlock(&self.file)?`
RlUnlock(p) ==
    /\ pr[p].pc = "c_unlock"
    /\ fl' = fl \ {p}
    /\ pr' = [pr EXCEPT ![p].pc = "c_swap"]
    /\ UNCHANGED <<notRelock, lf>>

\* LogFile::compact, `drop(std::mem::replace(&mut self.file, ..open(&temp_path)?))`:
\* self.file becomes the temp file (created anew if it is gone).
RlSwap(p) ==
    /\ pr[p].pc = "c_swap"
    /\ pr' = [pr EXCEPT ![p].pc = "c_rename"]
    /\ lf' = IF lf.tmp # 0 THEN [lf EXCEPT !.fd[p] = lf.tmp]
             ELSE [lf EXCEPT !.tmp = lf.next + 1, !.next = @ + 1,
                             !.fd[p] = lf.next + 1]
    /\ UNCHANGED <<notRelock, fl>>

\* LogFile::compact, `fs::rename(&temp_path, &self.path)?`: Err when the
\* temp file has been renamed away in the meantime.
RlRename(p) ==
    /\ pr[p].pc = "c_rename"
    /\ IF lf.tmp # 0
       THEN /\ lf' = [lf EXCEPT !.live = lf.tmp, !.tmp = 0]
            /\ pr' = [pr EXCEPT ![p].pc = "c_reopen"]
       ELSE /\ lf' = lf
            /\ pr' = [pr EXCEPT ![p].pc = "open"]
    /\ UNCHANGED <<notRelock, fl>>

\* LogFile::compact, `self.file = OpenOptions::new()...open(&self.path)?`
RlReopen(p) ==
    /\ pr[p].pc = "c_reopen"
    /\ lf' = [lf EXCEPT !.fd[p] = lf.live]
    /\ pr' = [pr EXCEPT ![p].pc = "c_relock"]
    /\ UNCHANGED <<notRelock, fl>>

\* LogFile::compact, `self.file.try_lock_exclusive()?; Ok(())`: on Err
\* compact returns the error and the LogFile stays as it is, unlocked.
RlRelock(p) ==
    /\ pr[p].pc = "c_relock"
    /\ fl' = IF flock_free(p) THEN fl \cup {p} ELSE fl
    /\ pr' = [pr EXCEPT ![p].pc = "open"]
    /\ UNCHANGED <<notRelock, lf>>

\* The Database is dropped: the log file is closed, which releases its lock.
RlDrop(p) ==
    /\ pr[p].pc = "open"
    /\ pr' = [pr EXCEPT ![p].pc = "idle", ![p].res = "none",
                        ![p].cache = EmptyMap]
    /\ fl' = fl \ {p}
    /\ lf' = [lf EXCEPT !.fd[p] = 0]
    /\ UNCHANGED notRelock

NextRelock ==
    \/ \E p \in Procs : RlOpenFile(p)
    \/ \E p \in Procs : RlTryLock(p)
    \/ \E p \in Procs : RlWriteTemp(p)
    \/ \E p \in Procs : RlUnlock(p)
    \/ \E p \in Procs : RlSwap(p)
    \/ \E p \in Procs : RlRename(p)
    \/ \E p \in Procs : RlReopen(p)
    \/ \E p \in Procs : RlRelock(p)
    \/ \E p \in Procs : RlDrop(p)

SpecRelock == InitRace /\ [][NextRelock]_vars

(***************************************************************************)
(* The server: handle_client on one connection.  Each request line is      *)
(* parsed, run on the Database under the storage Mutex, and answered.  The *)
(* log I/O succeeds.                                                       *)
(***************************************************************************)

\* The number of requests the client sends.
MaxRequests == 4

S_get == <<103, 101, 116>>
S_PING == <<80, 73, 78, 71>>
S_OK == <<79, 75, 10>>
S_NOT_FOUND == <<78, 79, 84, 95, 70, 79, 85, 78, 68, 10>>
S_VALUE == <<86, 65, 76, 85, 69, 32>>
S_INVALID == <<69, 82, 82, 79, 82, 32, 73, 110, 118, 97, 108, 105, 100, 32,
               99, 111, 109, 109, 97, 110, 100, 10>>

\* The value fields the client sends: "ab", nothing, "base64:AP8=".
Tokens == {<<97, 98>>, <<>>, S_BASE64 \o <<65, 80, 56, 61>>}

\* The requests the client sends: verb, key, value field.
Requests ==
    {[verb |-> S_SET, key |-> k, tok |-> t] : k \in Keys, t \in Tokens}
    \cup {[verb |-> v, key |-> k, tok |-> <<>>] :
              v \in {S_GET, S_get, S_DELETE}, k \in Keys}
    \cup {[verb |-> v, key |-> <<>>, tok |-> <<>>] : v \in {S_COMPACT, S_PING}}

\* Further value fields: "base64:Cg==" (a line feed), "base64:QQ==" ("A").
WireTokens ==
    {<<97, 98>>, S_BASE64 \o <<65, 80, 56, 61>>,
     S_BASE64 \o <<67, 103, 61, 61>>, S_BASE64 \o <<81, 81, 61, 61>>}

\* Request lines that are not commands: an unknown verb, the empty line, GET
\* and DELETE without a key, GET, DELETE and COMPACT with one argument more.
BadRequests ==
    {[verb |-> v, key |-> <<>>, tok |-> <<>>] :
         v \in {S_PING, <<>>, S_GET, S_DELETE}}
    \cup {[verb |-> v, key |-> <<107>>, tok |-> <<106>>] :
              v \in {S_GET, S_DELETE}}
    \cup {[verb |-> S_COMPACT, key |-> <<107>>, tok |-> <<>>]}

\* The requests of a client that also sends lines that are not commands.
WireRequests ==
    BadRequests
    \cup {[verb |-> S_SET, key |-> <<107>>, tok |-> t] : t \in WireTokens}
    \cup {[verb |-> v, key |-> <<107>>, tok |-> <<>>] : v \in {S_GET, S_DELETE}}
    \cup {[verb |-> S_COMPACT, key |-> <<>>, tok |-> <<>>]}

\* The line the client writes for a request.
ReqLine(r) ==
    r.verb \o (IF r.key = <<>> THEN <<>> ELSE <<32>> \o r.key)
           \o (IF r.verb = S_SET \/ r.tok # <<>> THEN <<32>> \o r.tok ELSE <<>>)
           \o <<10>>

\* str::to_uppercase on ASCII text.
to_uppercase(s) ==
    [i \in DOMAIN s |-> IF s[i] \in 97..122 THEN s[i] - 32 ELSE s[i]]

\* Command: Get(key), Set(key, value), Delete(key), Compact; NoCommand is the
\* None that parse_command returns.
Command(type, key, value) == [type |-> type, key |-> key, value |-> value]
NoCommand == Command("None", <<>>, <<>>)

\* protocol::parse_command
parse_command(line) ==
    LET parts == splitn3(trim(line))
        cmd == to_uppercase(parts[1])
        n == Len(parts)
    IN  IF cmd = S_GET THEN
            IF n = 2 THEN Command("Get", parts[2], <<>>) ELSE NoCommand
        ELSE IF cmd = S_SET THEN
            IF n < 2 THEN NoCommand
            ELSE LET value == IF n = 3 THEN parts[3] ELSE <<>> IN
                 IF starts_with(value, S_BASE64)
                 THEN LET d == B64Decode(SubSeq(value, 8, Len(value))) IN
                      Command("Set", parts[2],
                              IF d.ok THEN d.bytes ELSE value)
                 ELSE Command("Set", parts[2], value)
        ELSE IF cmd = S_DELETE THEN
            IF n = 2 THEN Command("Delete", parts[2], <<>>) ELSE NoCommand
        ELSE IF cmd = S_COMPACT THEN
            IF n = 1 THEN Command("Compact", <<>>, <<>>) ELSE NoCommand
        ELSE NoCommand

\* A Get branch that always answers with the raw bytes of the value.
GetResponseRaw(found) ==
    IF ~found.some THEN S_NOT_FOUND ELSE S_VALUE \o found.v \o <<10>>

\* handle_client, the response of the Get branch to storage.get(&key).
GetResponse(found) ==
    IF ~found.some THEN S_NOT_FOUND
    ELSE LET value == found.v
             is_binary ==
                 \E i \in DOMAIN value :
                     ~is_ascii_graphic(value[i])
                         /\ ~is_ascii_whitespace(value[i])
         IN  IF is_binary \/ ~IsUtf8(value)
             THEN S_VALUE \o S_BASE64 \o B64Encode(value) \o <<10>>
             ELSE S_VALUE \o value \o <<10>>

DeleteResponseNotFound(present) == IF present THEN S_OK ELSE S_NOT_FOUND

\* handle_client, the response of the Delete branch when storage.delete
\* returns Ok, whether the key was present or not.
DeleteResponse(present) == S_OK

\* handle_client, `let command = line.trim()` and parse_command(command), for
\* each request line.
Commands ==
    [r \in Requests \cup WireRequests |-> parse_command(trim(ReqLine(r)))]

Parsed(r) == Commands[r]

Answer(r, response) ==
    /\ up
    /\ conn = "open"
    /\ Len(hist) < MaxRequests
    /\ hist' = Append(hist, [req |-> r, resp |-> response])
    /\ UNCHANGED <<up, ghostVars, concVars, openVars, conn, sent, sysVars>>

\* handle_client, Command::Get
HandleGet(r) ==
    /\ Parsed(r).type = "Get"
    /\ Answer(r, GetResponse(Lookup(cache, Parsed(r).key)))
    /\ UNCHANGED <<disk, tmp, cache, current_size>>

\* handle_client, Command::Set, storage.set returning Ok
HandleSet(r) ==
    /\ Parsed(r).type = "Set"
    /\ Answer(r, S_OK)
    /\ cache' = MapInsert(cache, Parsed(r).key,
                          StoredValue(Parsed(r).key, Parsed(r).value))
    /\ append(Set(Parsed(r).key, Parsed(r).value), "ok")

\* handle_client, Command::Delete, storage.delete returning Ok
HandleDelete(r) ==
    /\ Parsed(r).type = "Delete"
    /\ Answer(r, DeleteResponse(Parsed(r).key \in DOMAIN cache))
    /\ cache' = MapRemove(cache, Parsed(r).key)
    /\ IF Parsed(r).key \in DOMAIN cache
       THEN append(Delete(Parsed(r).key), "ok")
       ELSE UNCHANGED <<disk, tmp, current_size>>

\* handle_client, Command::Compact, storage.compact returning Ok
HandleCompact(r) ==
    /\ Parsed(r).type = "Compact"
    /\ Answer(r, S_OK)
    /\ \E c \in CompactedLogs(disk) :
           /\ disk' = c
           /\ tmp' = NoFile
    /\ UNCHANGED <<cache, current_size>>

\* A handler that answers a line that is not a command and hangs up.
HandleInvalidAndClose(r) ==
    /\ Parsed(r).type = "None"
    /\ up
    /\ conn = "open"
    /\ Len(hist) < MaxRequests
    /\ hist' = Append(hist, [req |-> r, resp |-> S_INVALID])
    /\ conn' = "closed"
    /\ UNCHANGED <<engineVars, ghostVars, concVars, openVars, sent, sysVars>>

\* handle_client, parse_command returning None
HandleInvalid(r) ==
    /\ Parsed(r).type = "None"
    /\ Answer(r, S_INVALID)
    /\ UNCHANGED <<disk, tmp, cache, current_size>>

NextServer ==
    \/ \E r \in Requests : HandleGet(r)
    \/ \E r \in Requests : HandleSet(r)
    \/ \E r \in Requests : HandleDelete(r)
    \/ \E r \in Requests : HandleCompact(r)
    \/ \E r \in Requests : HandleInvalid(r)

SpecServer == Init /\ [][NextServer]_vars

\* handle_client, `reader.read_line(&mut line)? > 0` is false: the client has
\* closed the connection and nothing is left to read.
ClientClose ==
    /\ conn = "open"
    /\ Len(sent) <= Len(hist)
    /\ conn' = "closed"
    /\ UNCHANGED <<engineVars, ghostVars, concVars, openVars, hist, sent, sysVars>>

\* The server with a client that also sends lines that are not commands.
NextWire ==
    \/ \E r \in WireRequests : HandleGet(r)
    \/ \E r \in WireRequests : HandleSet(r)
    \/ \E r \in WireRequests : HandleDelete(r)
    \/ \E r \in WireRequests : HandleCompact(r)
    \/ \E r \in WireRequests : HandleInvalid(r)
    \/ ClientClose

SpecWire == Init /\ [][NextWire]_vars

\* The requests of a client that writes requests ahead of the responses:
\* SET k ab, SET k base64:Cg==, GET k, DELETE k, COMPACT, PING.
PipeRequests ==
    {[verb |-> S_SET, key |-> <<107>>, tok |-> t] :
         t \in {<<97, 98>>, S_BASE64 \o <<67, 103, 61, 61>>}}
    \cup {[verb |-> v, key |-> <<107>>, tok |-> <<>>] : v \in {S_GET, S_DELETE}}
    \cup {[verb |-> v, key |-> <<>>, tok |-> <<>>] : v \in {S_COMPACT, S_PING}}

\* The client writes one more request line to the connection.
ClientSend(r) ==
    /\ conn = "open"
    /\ Len(sent) < MaxRequests
    /\ sent' = Append(sent, r)
    /\ UNCHANGED <<engineVars, ghostVars, concVars, openVars, hist, conn, sysVars>>

\* handle_client, `reader.read_line(&mut line)? > 0`: a line is there to read.
Unread == Len(hist) < Len(sent)

\* The line that read_line returns: the oldest one not yet read.
NextRequest == sent[Len(hist) + 1]

\* handle_client on a connection whose client writes ahead.
NextPipe ==
    \/ \E r \in PipeRequests : ClientSend(r)
    \/ Unread /\ HandleGet(NextRequest)
    \/ Unread /\ HandleSet(NextRequest)
    \/ Unread /\ HandleDelete(NextRequest)
    \/ Unread /\ HandleCompact(NextRequest)
    \/ Unread /\ HandleInvalid(NextRequest)
    \/ ClientClose

SpecPipe == Init /\ [][NextPipe]_vars

(***************************************************************************)
(* thread_pool.rs: a ThreadPool, its worker threads and the thread that    *)
(* owns the pool.  A job either returns or panics.                         *)
(***************************************************************************)

JobKinds == {"returns", "panics"}

notPool ==
    <<engineVars, ghostVars, concVars, openVars, srvVars, lifeVars, callVars,
      reqVars>>

\* The Arc<Mutex<Receiver<Job>>> is held by the worker threads only: the
\* channel has a receiver as long as one of them is alive.
ReceiverAlive == \E w \in Workers : wk[w].pc \in {"recv", "run"}

\* ThreadPool::execute, `sender.send(job).unwrap()`: the job is queued, or,
\* the receiver being gone, send fails and the caller panics.
execute(kind) ==
    /\ pl.state = "live"
    /\ Len(jb.kinds) < MaxJobs
    /\ jb' = [jb EXCEPT !.kinds = Append(@, kind), !.runs = Append(@, 0)]
    /\ IF ReceiverAlive
       THEN /\ queue' = Append(queue, Len(jb.kinds) + 1)
            /\ pl' = pl
       ELSE /\ queue' = queue
            /\ pl' = [pl EXCEPT !.state = "panicked"]
    /\ UNCHANGED <<wk, notPool>>

\* Worker::new, `receiver.lock().unwrap().recv()` returning Ok(job): the
\* oldest job of the channel.
Recv(w) ==
    /\ wk[w].pc = "recv"
    /\ queue # <<>>
    /\ wk' = [wk EXCEPT ![w] = [pc |-> "run", job |-> Head(queue)]]
    /\ queue' = Tail(queue)
    /\ jb' = [jb EXCEPT !.taken = Append(@, Head(queue))]
    /\ UNCHANGED <<pl, notPool>>

\* Worker::new, recv returning Err(RecvError): the channel is empty and its
\* sender dropped; the thread leaves the loop.
RecvClosed(w) ==
    /\ wk[w].pc = "recv"
    /\ queue = <<>>
    /\ ~pl.sender
    /\ wk' = [wk EXCEPT ![w] = [pc |-> "exited", job |-> 0]]
    /\ UNCHANGED <<queue, pl, jb, notPool>>

\* Worker::new, `job()`: the job runs; if it panics the thread unwinds and
\* ends.
RunJob(w) ==
    /\ wk[w].pc = "run"
    /\ jb' = [jb EXCEPT !.runs[wk[w].job] = @ + 1]
    /\ wk' = [wk EXCEPT ![w] =
                 IF jb.kinds[wk[w].job] = "returns"
                 THEN [pc |-> "recv", job |-> 0]
                 ELSE [pc |-> "panicked", job |-> 0]]
    /\ UNCHANGED <<queue, pl, notPool>>

\* Drop for ThreadPool, `drop(self.sender.take())`
DropSender ==
    /\ pl.state = "live"
    /\ pl' = [sender |-> FALSE, state |-> "dropping", joining |-> 1]
    /\ UNCHANGED <<queue, wk, jb, notPool>>

\* Drop for ThreadPool, `thread.join().unwrap()` on the next worker: it
\* waits for the thread to end, and panics if the thread ended by a panic.
Join ==
    /\ pl.state = "dropping"
    /\ wk[pl.joining].pc \in {"exited", "panicked"}
    /\ pl' = IF wk[pl.joining].pc = "panicked"
             THEN [pl EXCEPT !.state = "panicked"]
             ELSE IF pl.joining = NWorkers
             THEN [pl EXCEPT !.state = "dropped"]
             ELSE [pl EXCEPT !.joining = @ + 1]
    /\ UNCHANGED <<queue, wk, jb, notPool>>

NextPool ==
    \/ \E kind \in JobKinds : execute(kind)
    \/ \E w \in Workers : Recv(w)
    \/ \E w \in Workers : RecvClosed(w)
    \/ \E w \in Workers : RunJob(w)
    \/ DropSender
    \/ Join

SpecPool == Init /\ [][NextPool]_vars

\* The worker threads and the dropping thread are scheduled: a step of
\* theirs that stays possible is eventually taken.
SpecPoolLive ==
    /\ Init
    /\ [][NextPool]_vars
    /\ \A w \in Workers :
           WF_vars(Recv(w)) /\ WF_vars(RecvClosed(w)) /\ WF_vars(RunJob(w))
    /\ WF_vars(Join)

(***************************************************************************)
(* server/mod.rs: Server::with_paths, the startup of a server process.     *)
(***************************************************************************)

notLife ==
    <<engineVars, ghostVars, concVars, openVars, srvVars, poolVars, callVars,
      reqVars>>

\* The PID file found at startup is absent, unparsable, or names another
\* process, which does not exist, or runs as the user of the server ("own"),
\* or runs as another user ("foreign").
InitStart ==
    /\ InitEngine /\ InitGhost /\ InitConc /\ InitOpen /\ InitServer
    /\ InitPool /\ InitCall
    /\ pidfile \in {NoPidFile, GarbagePidFile} \cup {PidFileOf(p) : p \in OtherPids}
    /\ ptab \in [OtherPids -> {"none", "own", "foreign"}]
    /\ sv = [NoServer EXCEPT
                 !.pc = "start", !.first = pidfile,
                 !.alive = {p \in OtherPids : ptab[p] # "none"}]
    /\ cn = [c \in Conns |-> "none"]

\* kill(pid, 0): Ok for a process the caller may signal, EPERM for a process
\* of another user, ESRCH when there is no such process.
kill0(pid) ==
    IF ptab[pid] = "own" THEN "Ok"
    ELSE IF ptab[pid] = "foreign" THEN "EPERM"
    ELSE "ESRCH"

\* process_exists: `kill(Pid::from_raw(pid as i32), None).is_ok()`
process_exists(pid) == kill0(pid) = "Ok"

\* Another process ends.
ProcExit(p) ==
    /\ sv.pc \in {"start", "cleaned"}
    /\ ptab[p] # "none"
    /\ ptab' = [ptab EXCEPT ![p] = "none"]
    /\ UNCHANGED <<pidfile, sv, cn, notLife>>

\* Server::cleanup_stale_pid_file
Cleanup ==
    /\ sv.pc = "start"
    /\ pidfile' = IF /\ pidfile.exists
                     /\ (~pidfile.valid \/ ~process_exists(pidfile.pid))
                  THEN NoPidFile
                  ELSE pidfile
    /\ sv' = [sv EXCEPT !.pc = "cleaned"]
    /\ UNCHANGED <<ptab, cn, notLife>>

\* Server::with_paths, "Check if PID file exists and process is running"
CheckPid ==
    /\ sv.pc = "cleaned"
    /\ sv' = IF pidfile.exists /\ pidfile.valid /\ process_exists(pidfile.pid)
             THEN [sv EXCEPT !.pc = "failed", !.res = "AddrInUse",
                             !.pid = pidfile.pid]
             ELSE [sv EXCEPT !.pc = "checked"]
    /\ UNCHANGED <<pidfile, ptab, cn, notLife>>

\* Server::with_paths, `fs::write(&pid_file, format!("{}\n", pid))`
WritePid ==
    /\ sv.pc = "checked"
    /\ pidfile' = PidFileOf(MyPid)
    /\ sv' = [sv EXCEPT !.pc = "written"]
    /\ UNCHANGED <<ptab, cn, notLife>>

\* The rest of Server::with_paths: Database::new and the bind loop succeed
\* ("Ok"), or Database::new fails ("DbErr", the PID file stays), or the bind
\* times out ("BindErr", the PID file is removed).
FinishStartup(out) ==
    /\ sv.pc = "written"
    /\ sv' = IF out = "Ok"
             THEN [sv EXCEPT !.pc = "loop", !.res = "Ok", !.running = TRUE]
             ELSE [sv EXCEPT !.pc = "failed", !.res = out]
    /\ pidfile' = IF out = "BindErr" THEN NoPidFile ELSE pidfile
    /\ UNCHANGED <<ptab, cn, notLife>>

NextStart ==
    \/ \E p \in OtherPids : ProcExit(p)
    \/ Cleanup
    \/ CheckPid
    \/ WritePid
    \/ \E out \in {"Ok", "DbErr", "BindErr"} : FinishStartup(out)

SpecStart == InitStart /\ [][NextStart]_vars

(***************************************************************************)
(* Several server processes, each started with Server::with_paths on the   *)
(* PID file and the log file it is given.  The pid of server process p is  *)
(* p; a process exists from its start until it exits.                      *)
(***************************************************************************)

\* The holder of the port when it is a program that is not one of the
\* servers.
OtherProgram == NProcs + 1

notServers ==
    <<engineVars, ghostVars, concVars, pr, fl, raced, lf, srvVars, sysVars>>

InitServers ==
    /\ InitEngine /\ InitGhost /\ InitConc /\ InitServer /\ InitPool
    /\ InitLife /\ InitCall
    /\ pr = [p \in Procs |-> NotOpening]
    /\ fl = {}
    /\ raced = FALSE
    /\ lf = OneLog
    /\ \E a \in [Procs -> [pid_file : PidPaths, log_file : LogPaths]],
          h \in {0, OtherProgram} :
           svs = [NoServers EXCEPT !.arg = a, !.port = h,
                                   !.pc = [p \in Procs |-> "start"]]

\* process_exists(pid) for the pid of a server process.
server_exists(pid) == svs.pc[pid] \notin {"none", "exited"}

\* The path the server's engine is opened on: with_paths does not pass
\* log_file on, it calls Database::new(), which is
\* with_log_path("keystonelight.log").
EnginePath(p) == DefaultLog

\* Server::cleanup_stale_pid_file(&pid_file)
SvCleanup(p) ==
    /\ svs.pc[p] = "start"
    /\ LET f == svs.arg[p].pid_file IN
       svs' = [svs EXCEPT !.pc[p] = "cleaned",
                        !.pidf[f] = IF @ # 0 /\ ~server_exists(@) THEN 0
                                    ELSE @]
    /\ UNCHANGED notServers

\* with_paths, "Check if PID file exists and process is running"
SvCheckPid(p) ==
    /\ svs.pc[p] = "cleaned"
    /\ LET pid == svs.pidf[svs.arg[p].pid_file] IN
       svs' = IF pid # 0 /\ server_exists(pid)
             THEN [svs EXCEPT !.pc[p] = "failed", !.res[p] = "AddrInUse"]
             ELSE [svs EXCEPT !.pc[p] = "checked"]
    /\ UNCHANGED notServers

\* with_paths, `fs::write(&pid_file, format!("{}\n", pid))?`
SvWritePid(p) ==
    /\ svs.pc[p] = "checked"
    /\ svs' = [svs EXCEPT !.pc[p] = "written", !.pidf[svs.arg[p].pid_file] = p]
    /\ UNCHANGED notServers

\* with_paths, `Database::new()?`: the log is opened and locked, or the call
\* returns the error of try_lock_exclusive (the PID file stays).
SvOpenDb(p) ==
    /\ svs.pc[p] = "written"
    /\ LET f == EnginePath(p) IN
       svs' = IF svs.lock[f] = 0
             THEN [svs EXCEPT !.pc[p] = "opened", !.lock[f] = p, !.log[p] = f]
             ELSE [svs EXCEPT !.pc[p] = "failed", !.res[p] = "AlreadyExists"]
    /\ UNCHANGED notServers

\* with_paths, `TcpListener::bind(SERVER_ADDR)` returns Ok: Ok(Self {..}).
SvBind(p) ==
    /\ svs.pc[p] = "opened"
    /\ svs.port = 0
    /\ svs' = [svs EXCEPT !.pc[p] = "ready", !.res[p] = "Ok", !.port = p]
    /\ UNCHANGED notServers

\* with_paths, bind has failed for BIND_TIMEOUT: the PID file is removed,
\* the error returned, and `storage` dropped with it.
SvBindTimeout(p) ==
    /\ svs.pc[p] = "opened"
    /\ svs.port # 0
    /\ svs' = [svs EXCEPT !.pc[p] = "failed", !.res[p] = "BindErr",
                        !.pidf[svs.arg[p].pid_file] = 0,
                        !.lock[svs.log[p]] = 0, !.log[p] = "none"]
    /\ UNCHANGED notServers

\* handle_client of a ready server: a SET or DELETE is appended to the log
\* of the server's engine.
SvMutate(p) ==
    /\ svs.pc[p] = "ready"
    /\ svs' = [svs EXCEPT !.wrote[svs.log[p]] = @ \cup {p}]
    /\ UNCHANGED notServers

\* A ready server is dropped (Drop for Server removes the PID file; the
\* listener and the Database are dropped) and its process ends.
SvStop(p) ==
    /\ svs.pc[p] = "ready"
    /\ svs' = [svs EXCEPT !.pc[p] = "exited",
                        !.pidf[svs.arg[p].pid_file] = 0,
                        !.lock[svs.log[p]] = 0, !.log[p] = "none",
                        !.port = 0]
    /\ UNCHANGED notServers

\* The other program closes its socket.
PortFreed ==
    /\ svs.port = OtherProgram
    /\ svs' = [svs EXCEPT !.port = 0]
    /\ UNCHANGED notServers

\* The process of a server whose with_paths returned Err ends.
SvExit(p) ==
    /\ svs.pc[p] = "failed"
    /\ svs' = [svs EXCEPT !.pc[p] = "exited"]
    /\ UNCHANGED notServers

NextServers ==
    \/ \E p \in Procs : SvCleanup(p)
    \/ \E p \in Procs : SvCheckPid(p)
    \/ \E p \in Procs : SvWritePid(p)
    \/ \E p \in Procs : SvOpenDb(p)
    \/ \E p \in Procs : SvBind(p)
    \/ \E p \in Procs : SvBindTimeout(p)
    \/ \E p \in Procs : SvMutate(p)
    \/ \E p \in Procs : SvStop(p)
    \/ \E p \in Procs : SvExit(p)
    \/ PortFreed

SpecServers == InitServers /\ [][NextServers]_vars

(***************************************************************************)
(* server/mod.rs: Server::run, the signal thread, and the drop of the      *)
(* Server. A connection is "pending" in the listen queue, "queued" once    *)
(* accepted and passed to the pool, "handling" while a worker runs         *)
(* handle_client on it (blocked in read_line on an idle connection), and   *)
(* "done" when the handler has returned.                                   *)
(***************************************************************************)

\* A server that with_paths has returned and on which run() is executing.
InitStop ==
    /\ InitEngine /\ InitGhost /\ InitConc /\ InitOpen /\ InitServer
    /\ InitPool /\ InitCall
    /\ pidfile = PidFileOf(MyPid)
    /\ ptab = [p \in OtherPids |-> "none"]
    /\ sv = [NoServer EXCEPT !.pc = "loop", !.res = "Ok", !.running = TRUE]
    /\ cn = [c \in Conns |-> "none"]

Handling == {c \in Conns : cn[c] = "handling"}
InFlight == {c \in Conns : cn[c] \in {"queued", "handling"}}

\* SIGTERM or SIGINT is delivered to the process.
Signal ==
    /\ sv.pc \in {"loop", "accept"}
    /\ sv.sig = "none"
    /\ sv' = [sv EXCEPT !.sig = "pending"]
    /\ UNCHANGED <<pidfile, ptab, cn, notLife>>

\* The signal thread: `let _ = fs::remove_file(&pid_file);`
SigRemovePid ==
    /\ sv.sig = "pending"
    /\ pidfile' = NoPidFile
    /\ sv' = [sv EXCEPT !.sig = "removed"]
    /\ UNCHANGED <<ptab, cn, notLife>>

\* The signal thread: `running.store(false, Ordering::SeqCst); break;`
SigStore ==
    /\ sv.sig = "removed"
    /\ sv' = [sv EXCEPT !.sig = "done", !.running = FALSE]
    /\ UNCHANGED <<pidfile, ptab, cn, notLife>>

\* A client connects: the connection waits in the listen queue.
Connect(c) ==
    /\ sv.pc \in {"loop", "accept", "returned"}
    /\ cn[c] = "none"
    /\ cn' = [cn EXCEPT ![c] = "pending"]
    /\ UNCHANGED <<pidfile, ptab, sv, notLife>>

\* run: `while self.running.load(Ordering::SeqCst)`, and, once the loop has
\* ended, the removal of the PID file and the return.
LoadRunning ==
    /\ sv.pc = "loop"
    /\ IF sv.running
       THEN /\ sv' = [sv EXCEPT !.pc = "accept"]
            /\ UNCHANGED pidfile
       ELSE /\ sv' = [sv EXCEPT !.pc = "returned"]
            /\ pidfile' = NoPidFile
    /\ UNCHANGED <<ptab, cn, notLife>>

\* run: `match self.listener.accept()` on the non-blocking listener: a
\* pending connection is passed to the pool, or there is none (WouldBlock,
\* sleep, continue).
Accept ==
    /\ sv.pc = "accept"
    /\ IF \E c \in Conns : cn[c] = "pending"
       THEN \E c \in Conns :
                /\ cn[c] = "pending"
                /\ cn' = [cn EXCEPT ![c] = "queued"]
       ELSE UNCHANGED cn
    /\ sv' = [sv EXCEPT !.pc = "loop"]
    /\ UNCHANGED <<pidfile, ptab, notLife>>

\* run: accept fails with another error: the loop ends, the PID file is
\* removed and run returns.
AcceptError ==
    /\ sv.pc = "accept"
    /\ sv' = [sv EXCEPT !.pc = "returned"]
    /\ pidfile' = NoPidFile
    /\ UNCHANGED <<ptab, cn, notLife>>

\* A pool whose workers end after the first job they run.
StartHandlerOnce(c) ==
    /\ cn[c] = "queued"
    /\ Cardinality({d \in Conns : cn[d] \in {"handling", "done"}}) < NWorkers
    /\ cn' = [cn EXCEPT ![c] = "handling"]
    /\ UNCHANGED <<pidfile, ptab, sv, notLife>>

\* A free worker receives the job of a queued connection and enters
\* handle_client, where it blocks in read_line.
StartHandler(c) ==
    /\ cn[c] = "queued"
    /\ Cardinality(Handling) < NWorkers
    /\ cn' = [cn EXCEPT ![c] = "handling"]
    /\ UNCHANGED <<pidfile, ptab, sv, notLife>>

\* The client closes its connection: read_line returns 0 and handle_client
\* returns.
Disconnect(c) ==
    /\ cn[c] = "handling"
    /\ cn' = [cn EXCEPT ![c] = "done"]
    /\ UNCHANGED <<pidfile, ptab, sv, notLife>>

\* The Server is dropped once run has returned: Drop for Server removes the
\* PID file, then the fields are dropped, the listener and the pool's sender
\* among them.
DropServer ==
    /\ sv.pc = "returned"
    /\ pidfile' = NoPidFile
    /\ sv' = [sv EXCEPT !.pc = "dropping"]
    /\ UNCHANGED <<ptab, cn, notLife>>

\* Drop for ThreadPool has joined every worker: each has run the jobs left
\* in the queue and the one it was running, and has ended.
Joined ==
    /\ sv.pc = "dropping"
    /\ InFlight = {}
    /\ sv' = [sv EXCEPT !.pc = "down"]
    /\ UNCHANGED <<pidfile, ptab, cn, notLife>>

NextStop ==
    \/ Signal
    \/ SigRemovePid
    \/ SigStore
    \/ \E c \in Conns : Connect(c)
    \/ LoadRunning
    \/ Accept
    \/ AcceptError
    \/ \E c \in Conns : StartHandler(c)
    \/ \E c \in Conns : Disconnect(c)
    \/ DropServer
    \/ Joined

SpecStop == InitStop /\ [][NextStop]_vars

\* The threads of the server are scheduled; clients connect and disconnect
\* when they like, and signals arrive when they do.
SpecStopLive ==
    /\ SpecStop
    /\ WF_vars(SigRemovePid)
    /\ WF_vars(SigStore)
    /\ WF_vars(LoadRunning)
    /\ WF_vars(Accept)
    /\ \A c \in Conns : WF_vars(StartHandler(c))
    /\ WF_vars(DropServer)
    /\ WF_vars(Joined)

(***************************************************************************)
(* server/mod.rs: the accept loop, the pool and handle_client serving      *)
(* more clients than there are workers.  A client connects, writes its     *)
(* requests, reads the responses and closes.                               *)
(***************************************************************************)

\* The number of requests a client writes at most.
MaxReqs == 2

notReq ==
    <<engineVars, ghostVars, concVars, openVars, srvVars, poolVars, lifeVars,
      callVars>>

\* The client writes a request line to its connection; the line waits in
\* the socket until a handler reads it.
ClientRequest(c) ==
    /\ cn[c] \in {"pending", "queued", "handling"}
    /\ rq.sent[c] < MaxReqs
    /\ rq' = [rq EXCEPT !.sent[c] = @ + 1]
    /\ UNCHANGED notReq

\* handle_client: read_line returns a request line; the response is written
\* and flushed.
Respond(c) ==
    /\ cn[c] = "handling"
    /\ rq.answered[c] < rq.sent[c]
    /\ rq' = [rq EXCEPT !.answered[c] = @ + 1]
    /\ UNCHANGED notReq

\* The client has read the responses to all its requests and closes the
\* connection; the handler returns and its worker is free again.
Hangup(c) ==
    /\ rq.answered[c] = rq.sent[c]
    /\ Disconnect(c)

NextServe ==
    \/ \E c \in Conns : Connect(c)
    \/ LoadRunning
    \/ Accept
    \/ \E c \in Conns : StartHandler(c)
    \/ \E c \in Conns : ClientRequest(c)
    \/ \E c \in Conns : Respond(c)
    \/ \E c \in Conns : Hangup(c)

SpecServe == InitStop /\ [][NextServe]_vars

\* The threads of the server are scheduled, and a client that has all its
\* responses closes its connection.
SpecServeLive ==
    /\ SpecServe
    /\ WF_vars(LoadRunning)
    /\ WF_vars(Accept)
    /\ \A c \in Conns :
           WF_vars(StartHandler(c)) /\ WF_vars(Respond(c)) /\ WF_vars(Hangup(c))

\* The live engine: the calls on one open Database, with the I/O errors of
\* append, without restarts.
NextLive ==
    \/ \E k \in Keys, v \in Values, out \in Outcomes :
           DbSet(k, v, out) /\ UNCHANGED sideVars
    \/ \E k \in Keys, out \in Outcomes : DbDelete(k, out) /\ UNCHANGED sideVars
    \/ DbCompact /\ UNCHANGED sideVars

SpecLive == Init /\ [][NextLive]_vars

(***************************************************************************)
(* The calls on the Database as a caller sees them: any key and value may  *)
(* be passed, and each call leaves its arguments, its result and the       *)
(* index, log and tracked length it found in `call`.                       *)
(***************************************************************************)

\* The values passed to set: "ab", the text "base64:QQ==", and "aaaa".
CallValues == {<<97, 98>>, S_BASE64 \o <<81, 81, 61, 61>>, BigValue}

\* The number of calls on the Database in one behaviour.
MaxOps == 3

notCall == <<concVars, openVars, srvVars, poolVars, lifeVars, fx, rq>>

\* io::Result<()> of a call whose append had the outcome `out`.
Result(out) == IF out = "ok" THEN "Ok" ELSE "Io"

Called(op, k, v, res) ==
    call' = [op |-> op, key |-> k, value |-> v, res |-> res,
             cache |-> cache, disk |-> disk, size |-> current_size,
             n |-> call.n + 1]

CallSet(k, v, out) ==
    /\ call.n < MaxOps
    /\ UNCHANGED cs
    /\ DbSet(k, v, out)
    /\ Called("set", k, v, Result(out))
    /\ UNCHANGED notCall

CallDelete(k, out) ==
    /\ call.n < MaxOps
    /\ UNCHANGED cs
    /\ DbDelete(k, out)
    /\ Called("delete", k, <<>>, Result(out))
    /\ UNCHANGED notCall

CallCompact ==
    /\ call.n < MaxOps
    /\ UNCHANGED cs
    /\ DbCompact
    /\ Called("compact", <<>>, <<>>, "Ok")
    /\ UNCHANGED notCall

CallDrop ==
    /\ call.n < MaxOps
    /\ UNCHANGED cs
    /\ Drop
    /\ Called("drop", <<>>, <<>>, "Ok")
    /\ UNCHANGED notCall

CallOpen ==
    /\ call.n < MaxOps
    /\ UNCHANGED cs
    /\ Open
    /\ Called("open", <<>>, <<>>, IF replay(disk).ok THEN "Ok" ELSE "Io")
    /\ UNCHANGED notCall

NextCalls ==
    \/ \E k \in CallKeys, v \in CallValues, out \in Outcomes : CallSet(k, v, out)
    \/ \E k \in CallKeys, out \in Outcomes : CallDelete(k, out)
    \/ CallCompact
    \/ CallDrop
    \/ CallOpen

SpecCalls == Init /\ [][NextCalls]_vars

\* The same calls with keys and values that the rules allow: the keys "k"
\* and "j", the values "ab" and the text "base64:QQ==".
ValidValues == {<<97, 98>>, S_BASE64 \o <<81, 81, 61, 61>>}

NextValid ==
    \/ \E k \in Keys, v \in ValidValues, out \in Outcomes : CallSet(k, v, out)
    \/ \E k \in Keys, out \in Outcomes : CallDelete(k, out)
    \/ CallCompact
    \/ CallDrop
    \/ CallOpen

SpecValid == Init /\ [][NextValid]_vars

(***************************************************************************)
(* storage/log.rs: LogFile::compact, step by step, with the process dying  *)
(* at any step and the log reopened afterwards.                            *)
(***************************************************************************)

\* The records of the logs that are compacted: SET k ab, SET k with the
\* bytes 00 FF, SET j with the text "base64:Cg==", DELETE k.
CrashRecords ==
    {Set(<<107>>, <<97, 98>>), Set(<<107>>, <<0, 255>>),
     Set(<<106>>, S_BASE64 \o <<67, 103, 61, 61>>), Delete(<<107>>)}

\* The number of records in a log that is compacted.
MaxRecords == 3

\* LogFile::append for each record in turn.
RECURSIVE WriteLog(_)
WriteLog(rs) ==
    IF rs = <<>> THEN <<>>
    ELSE to_string(Head(rs)) \o <<10>> \o WriteLog(Tail(rs))

CrashLogs ==
    {WriteLog(rs) : rs \in UNION {[1..n -> CrashRecords] : n \in 0..MaxRecords}}

\* A Database open on a log that earlier runs of the program wrote.
InitCompact ==
    /\ disk \in CrashLogs
    /\ tmp = NoFile
    /\ cache = BuildCache(replay(disk).entries, EmptyMap)
    /\ current_size = Len(disk)
    /\ up = TRUE
    /\ InitGhost /\ InitConc /\ InitOpen /\ InitServer /\ InitPool /\ InitLife
    /\ InitCall

notCompact ==
    <<nAppends, acked, dd, synced, clean, before, fresh, cmp,
      concVars, openVars, srvVars, poolVars, lifeVars, fx, rq>>

\* The lines of WriteState, one per key whose last record is a Set.
RECURSIVE StateLines(_, _)
StateLines(m, order) ==
    IF order = <<>> THEN <<>>
    ELSE (IF m[Head(order)].some
          THEN <<to_string(Set(Head(order), m[Head(order)].v)) \o <<10>>>>
          ELSE <<>>) \o StateLines(m, Tail(order))

\* compact: `let entries = self.replay()?` and the fold into current_state;
\* the HashMap is iterated in some order.
CompactReplay ==
    /\ up
    /\ cs.pc = "idle"
    /\ call.op = "none"
    /\ LET m == current_state(replay(disk).entries, EmptyMap) IN
       \E o \in Orders(DOMAIN m) :
           cs' = [pc |-> "create", lines |-> StateLines(m, o)]
    /\ Called("compact", <<>>, <<>>, "running")
    /\ UNCHANGED <<engineVars, notCompact>>

\* compact: the temporary file is created, truncated.
CompactCreate ==
    /\ up
    /\ cs.pc = "create"
    /\ tmp' = [exists |-> TRUE, bytes |-> <<>>]
    /\ cs' = [cs EXCEPT !.pc = "write"]
    /\ UNCHANGED <<disk, cache, current_size, up, call, notCompact>>

\* compact: `writeln!(temp_file, "{}", entry.to_string())?`
CompactWrite ==
    /\ up
    /\ cs.pc = "write"
    /\ cs.lines # <<>>
    /\ tmp' = [tmp EXCEPT !.bytes = @ \o Head(cs.lines)]
    /\ cs' = [cs EXCEPT !.lines = Tail(@)]
    /\ UNCHANGED <<disk, cache, current_size, up, call, notCompact>>

\* compact: temp_file.sync_all(), the unlock of the old file, and the
\* reopening of the temporary file in its place.
CompactSync ==
    /\ up
    /\ cs.pc = "write"
    /\ cs.lines = <<>>
    /\ cs' = [cs EXCEPT !.pc = "rename"]
    /\ UNCHANGED <<engineVars, call, notCompact>>

\* compact: `fs::rename(&temp_path, &self.path)?`
CompactRename ==
    /\ up
    /\ cs.pc = "rename"
    /\ disk' = tmp.bytes
    /\ tmp' = NoFile
    /\ cs' = [cs EXCEPT !.pc = "relock"]
    /\ UNCHANGED <<cache, current_size, up, call, notCompact>>

\* compact: the new file is opened and locked, and compact returns Ok.
CompactRelock ==
    /\ up
    /\ cs.pc = "relock"
    /\ cs' = [cs EXCEPT !.pc = "done"]
    /\ call' = [call EXCEPT !.res = "Ok"]
    /\ UNCHANGED <<engineVars, notCompact>>

\* The process dies at a step of compact; a line being written to the
\* temporary file loses its last n bytes.
CompactCrash(n) ==
    /\ up
    /\ cs.pc \in {"create", "write", "rename", "relock"}
    /\ IF cs.pc = "write" /\ cs.lines # <<>> /\ n > 0
       THEN tmp' = [tmp EXCEPT !.bytes =
                        @ \o SubSeq(Head(cs.lines), 1, Len(Head(cs.lines)) - n)]
       ELSE UNCHANGED tmp
    /\ up' = FALSE
    /\ cache' = EmptyMap
    /\ current_size' = 0
    /\ cs' = [cs EXCEPT !.pc = "crashed"]
    /\ call' = [call EXCEPT !.res = "crashed"]
    /\ UNCHANGED <<disk, notCompact>>

\* The restart: Database::with_log_path on the log path.
CompactRestart ==
    /\ cs.pc = "crashed"
    /\ Open
    /\ cs' = [cs EXCEPT !.pc = "restarted"]
    /\ UNCHANGED <<call, fx, rq>>
    /\ UNCHANGED <<concVars, openVars, srvVars, poolVars, lifeVars>>

NextCompact ==
    \/ CompactReplay
    \/ CompactCreate
    \/ CompactWrite
    \/ CompactSync
    \/ CompactRename
    \/ CompactRelock
    \/ \E n \in 0..MaxTear : CompactCrash(n)
    \/ CompactRestart

SpecCompact == InitCompact /\ [][NextCompact]_vars

(***************************************************************************)
(* storage/log.rs: LogFile::replay applied to the log found at the path.   *)
(***************************************************************************)

\* Whole lines found in a log: SET k ab, DELETE k, a SET without a value,
\* an empty line, and a line that is not UTF-8.
FoundLines ==
    {to_string(Set(<<107>>, <<97, 98>>)) \o <<10>>,
     to_string(Delete(<<107>>)) \o <<10>>,
     S_SET \o <<32, 107, 10>>,
     <<10>>,
     <<255, 10>>}

\* What a crash in LogFile::append leaves at the end of a log: nothing; the
\* record SET j ab whose line feed was not written (append writes the record
\* and the line feed with two write_all calls); the record cut in its value;
\* the record cut in its verb.
FoundTails ==
    {<<>>,
     to_string(Set(<<106>>, <<97, 98>>)),
     S_SET \o <<32, 106, 32, 97>>,
     <<83, 69>>}

\* The number of whole lines in a log that is replayed.
MaxLines == 2

RECURSIVE Concat(_)
Concat(ss) == IF ss = <<>> THEN <<>> ELSE Head(ss) \o Concat(Tail(ss))

ReplayLogs ==
    {Concat(ls) \o t :
        ls \in UNION {[1..n -> FoundLines] : n \in 0..MaxLines},
        t \in FoundTails}

notFx ==
    <<engineVars, ghostVars, concVars, openVars, srvVars, poolVars, lifeVars,
      call, cs, rq>>

InitReplay ==
    /\ disk \in ReplayLogs
    /\ tmp = NoFile
    /\ cache = EmptyMap
    /\ current_size = 0
    /\ up = FALSE
    /\ InitGhost /\ InitConc /\ InitOpen /\ InitServer /\ InitPool /\ InitLife
    /\ InitCall

\* LogFile::replay on the file
Replay ==
    /\ fx.fn = "none"
    /\ fx' = [fn |-> "replay", in |-> disk, line |-> <<>>, out |-> replay(disk)]
    /\ UNCHANGED notFx

NextReplay == Replay

SpecReplay == InitReplay /\ [][NextReplay]_vars

(***************************************************************************)
(* Calls on a log found at the path: the engine has opened on one of       *)
(* ReplayLogs (those that replay), among them logs whose last line a crash *)
(* cut short; then set, delete and compact are called.                     *)
(***************************************************************************)

InitFound ==
    /\ disk \in {b \in ReplayLogs : replay(b).ok}
    /\ tmp = NoFile
    /\ cache = BuildCache(replay(disk).entries, EmptyMap)
    /\ current_size = Len(disk)
    /\ up = TRUE
    /\ InitGhost /\ InitConc /\ InitOpen /\ InitServer /\ InitPool /\ InitLife
    /\ InitCall

\* The value of the set calls.
FoundValues == {<<97, 98>>}

NextFound ==
    \/ \E k \in Keys, v \in FoundValues, out \in Outcomes : CallSet(k, v, out)
    \/ \E k \in Keys, out \in Outcomes : CallDelete(k, out)
    \/ CallCompact

SpecFound == InitFound /\ [][NextFound]_vars

(***************************************************************************)
(* storage/log.rs: LogEntry::to_string and LogEntry::from_string applied   *)
(* in turn to a record.                                                    *)
(***************************************************************************)

\* Valid keys: "k", "j", "kj".
CodecKeys == {<<107>>, <<106>>, <<107, 106>>}

\* Values: "ab", "a b", the empty value, " a", "a ", a line feed, the bytes
\* 00 FF, the byte FF, the texts "base64:QQ==" and "base64:", and "a\tb".
CodecValues ==
    {<<97, 98>>, <<97, 32, 98>>, <<>>, <<32, 97>>, <<97, 32>>, <<10>>,
     <<0, 255>>, <<255>>, S_BASE64 \o <<81, 81, 61, 61>>, S_BASE64,
     <<97, 9, 98>>}

CodecRecords ==
    {Set(k, v) : k \in CodecKeys, v \in CodecValues}
        \cup {Delete(k) : k \in CodecKeys}

InitCodec ==
    /\ InitEngine /\ InitGhost /\ InitConc /\ InitOpen /\ InitServer
    /\ InitPool /\ InitLife
    /\ call = NoCall /\ cs = NoCompaction /\ rq = NoRequests
    /\ \E r \in CodecRecords :
           fx = [fn |-> "record", in |-> r, line |-> <<>>, out |-> NoEntry]

\* LogEntry::to_string on the record
Serialize ==
    /\ fx.fn = "record"
    /\ fx' = [fx EXCEPT !.fn = "to_string", !.line = to_string(fx.in)]
    /\ UNCHANGED notFx

\* LogEntry::from_string on the line
Parse ==
    /\ fx.fn = "to_string"
    /\ fx' = [fx EXCEPT !.fn = "from_string", !.out = from_string(fx.line)]
    /\ UNCHANGED notFx

NextCodec == Serialize \/ Parse

SpecCodec == InitCodec /\ [][NextCodec]_vars

(***************************************************************************)
(* Claims about the engine                                                 *)
(***************************************************************************)

\* Database::get
get(k) == Lookup(cache, k)

\* C1 (durability): once set(k, v) has returned Ok, and no other set or
\* delete of k was started, a Database reopened on the log after a crash or
\* drop answers get(k) = Some(v).
C1_Durability ==
    up => \A k \in Keys : acked[k].st = "restarted" => get(k) = Some(acked[k].v)

\* C2 (replay equivalence): after a sequence of successful set and delete
\* calls, the Database reopened on the log answers every get as it did
\* before the drop.
C2_ReplayEquivalence ==
    (up /\ fresh /\ clean) => cache = before

\* C3 (compaction equivalence): from a successful compact until the next
\* set or delete, also across a drop and reopen of the engine, every get
\* answers as it did just before the compact.
C3_CompactionEquivalence ==
    (up /\ cmp.valid) => cache = cmp.m

\* C7 (no read of an unsynced change): whenever get(k) answers Some(v), a
\* record SET(k, v) has been written and fsynced by an append.
C7_ReadsAreDurable ==
    up => \A k \in DOMAIN cache : Set(k, cache[k]) \in synced

\* C8 (delete is idempotent): after delete(k) has returned Ok twice in a
\* row, get(k) is None, and it is None again after a reopen.
C8_DeleteIdempotent ==
    up => \A k \in Keys : dd[k] = 2 => get(k) = None

\* C9 (round trip of values): after set(k, v) has returned Ok, and until
\* the next set or delete of k, get(k) on that Database is Some(v), byte for
\* byte.
C9_RoundTrip ==
    up => \A k \in Keys : acked[k].st = "live" => get(k) = Some(acked[k].v)

\* C9 witness: a value with a NUL and a byte >= 0x80 and a text that begins
\* with "base64:" have both been set and are both held.
C9_Witness ==
    /\ up
    /\ acked[<<107>>] = [st |-> "live", v |-> <<0, 255>>]
    /\ acked[<<106>>] = [st |-> "live", v |-> S_BASE64 \o <<81, 81, 61, 61>>]
    /\ get(<<107>>) = Some(<<0, 255>>)

(***************************************************************************)
(* Claims about threads sharing the Database                               *)
(***************************************************************************)

\* The value of the last Set entry for key k among entries, if any.
RECURSIVE LastSet(_, _)
LastSet(entries, k) ==
    IF entries = <<>> THEN None
    ELSE LET e == entries[Len(entries)] IN
         IF e.type = "Set" /\ e.key = k THEN Some(e.value)
         ELSE LastSet(SubSeq(entries, 1, Len(entries) - 1), k)

\* The index was updated in the order in which the records were appended.
SameOrder == Quiescent => cg.idx = cg.app

\* C4 (conflicting writers): when two threads have set the same key to
\* different values (and nobody deleted it) and all calls have returned, every
\* set having returned Ok, get(k) is the value of
\* the last SET record for k that the log holds, and the index was updated in
\* the order of the appends.
C4_LastWriterWins ==
    (up /\ Quiescent) =>
        /\ cg.idx = cg.app
        /\ \A k \in Keys :
               (/\ \E a, b \in cg.setters[k] : a[1] # b[1] /\ a[2] # b[2]
                /\ k \notin cg.deleted)
                   => get(k) = LastSet(replay(disk).entries, k)

\* C5 (disjoint writers): when the threads have used disjoint keys and all
\* calls have returned, every key whose last call was a set is held with
\* the value written, in the live engine and in the reopened one.
C5_NoLostUpdate ==
    (/\ up
     /\ Quiescent
     /\ \A k \in Keys : Cardinality(cg.users[k]) <= 1
     /\ \A t \in Threads : \E k \in Keys : t \in cg.users[k])
        => \A k \in Keys : cg.last[k].st = "live" => get(k) = Some(cg.last[k].v)

(***************************************************************************)
(* Claims about concurrent opens                                           *)
(***************************************************************************)

AllReturned == \A p \in Procs : pr[p].pc = "ret"

\* C6 (single instance): when the with_log_path calls of all processes on
\* the same log path have returned, exactly one of them returned Ok and every
\* other one failed with the already-locked error (ErrorKind::AlreadyExists).
C6_ExactlyOneOpens ==
    AllReturned =>
        \E p \in Procs :
            /\ pr[p].res = "Ok"
            /\ \A q \in Procs \ {p} : pr[q].res = "AlreadyExists"

\* Both processes had the log open before either asked for the lock; the
\* first one got its Database, the second one the error.
C6_Witness ==
    /\ AllReturned
    /\ raced
    /\ pr[1].res = "Ok"
    /\ pr[2].res = "AlreadyExists"

(***************************************************************************)
(* Claims about the server's responses                                     *)
(***************************************************************************)

\* What a request asks for, read off the verb the client chose.
Kind(r) ==
    IF r.verb = S_SET THEN "SET"
    ELSE IF r.verb \in {S_GET, S_get} THEN "GET"
    ELSE IF r.verb = S_DELETE THEN "DELETE"
    ELSE IF r.verb = S_COMPACT THEN "COMPACT"
    ELSE "other"

\* The keys present after a request history, each with the value field of
\* its last SET.
RECURSIVE Present(_)
Present(h) ==
    IF h = <<>> THEN EmptyMap
    ELSE LET m == Present(SubSeq(h, 1, Len(h) - 1))
             r == h[Len(h)].req
         IN  IF Kind(r) = "SET" THEN MapInsert(m, r.key, r.tok)
             ELSE IF Kind(r) = "DELETE" THEN MapRemove(m, r.key)
             ELSE m

\* The response the protocol prescribes for request r after history h.
Expected(r, h) ==
    IF Kind(r) = "GET"
    THEN IF r.key \in DOMAIN Present(h)
         THEN S_VALUE \o Present(h)[r.key] \o <<10>>
         ELSE S_NOT_FOUND
    ELSE S_OK

Malformed(r) ==
    \/ r.verb \notin {S_SET, S_GET, S_get, S_DELETE, S_COMPACT}
    \/ r.verb \in {S_GET, S_get, S_DELETE} /\ (r.key = <<>> \/ r.tok # <<>>)
    \/ r.verb = S_COMPACT /\ (r.key # <<>> \/ r.tok # <<>>)

\* C11 (invalid commands): a request line with an unknown verb, an empty
\* line, GET or DELETE without a key, or GET, DELETE or COMPACT with an extra
\* argument is answered `ERROR Invalid command`; answering it changes neither
\* the index nor the log and leaves the connection open.
C11_InvalidCommand ==
    [][(hist' # hist /\ Malformed(hist'[Len(hist')].req))
           => /\ hist'[Len(hist')].resp = S_INVALID
              /\ cache' = cache
              /\ disk' = disk
              /\ conn' = "open"]_vars

\* `GET k j` was answered ERROR Invalid command between a SET and a GET of
\* k, and the GET after it was answered with the value.
C11_Witness ==
    /\ Len(hist) = 3
    /\ hist[1].req = [verb |-> S_SET, key |-> <<107>>, tok |-> <<97, 98>>]
    /\ hist[2] = [req |-> [verb |-> S_GET, key |-> <<107>>, tok |-> <<106>>],
                  resp |-> S_INVALID]
    /\ hist[3] = [req |-> [verb |-> S_GET, key |-> <<107>>, tok |-> <<>>],
                  resp |-> S_VALUE \o <<97, 98, 10>>]
    /\ conn = "open"

\* The bytes the server has written to the connection.
RECURSIVE Written(_)
Written(h) == IF h = <<>> THEN <<>> ELSE Head(h).resp \o Written(Tail(h))

\* C12 (responses in request order): the requests answered are the first
\* requests sent, in the order sent; the server has written exactly one line
\* per request answered, and the k-th line written is the response to the
\* k-th request.
C12_ResponseOrder ==
    LET ls == Lines(Written(hist)) IN
    /\ Len(hist) <= Len(sent)
    /\ \A k \in 1..Len(hist) : hist[k].req = sent[k]
    /\ Len(ls) = Len(hist)
    /\ \A k \in 1..Len(hist) : k <= Len(ls) => ls[k] \o <<10>> = hist[k].resp

\* The number of line feeds in a byte sequence.
RECURSIVE CountLF(_)
CountLF(b) ==
    IF b = <<>> THEN 0
    ELSE (IF Head(b) = 10 THEN 1 ELSE 0) + CountLF(Tail(b))

\* C13 (single-line responses): every response written holds exactly one
\* line feed, and it is its last byte.
C13_SingleLine ==
    \A i \in 1..Len(hist) :
        /\ CountLF(hist[i].resp) = 1
        /\ hist[i].resp[Len(hist[i].resp)] = 10

\* The base64 payloads the client sends, with the bytes they stand for:
\* AP8= is 00 FF, Cg== is a line feed, QQ== is "A".
Payloads ==
    {[b64 |-> <<65, 80, 56, 61>>, bytes |-> <<0, 255>>],
     [b64 |-> <<67, 103, 61, 61>>, bytes |-> <<10>>],
     [b64 |-> <<81, 81, 61, 61>>, bytes |-> <<65>>]}

\* The value holds a byte that is neither an ASCII graphic nor ASCII
\* whitespace.
IsBinary(value) ==
    \E i \in DOMAIN value : value[i] \notin (33..126) \cup {9, 10, 12, 13, 32}

C15_OneLinePerAppend ==
    [][(Len(disk') > Len(disk) /\ SubSeq(disk', 1, Len(disk)) = disk)
           => CountLF(disk') = CountLF(disk) + 1]_vars

(***************************************************************************)
(* Claims about the thread pool                                            *)
(***************************************************************************)

NoWorkerLeft == \A w \in Workers : wk[w].pc \in {"exited", "panicked"}

\* C16 (jobs run exactly once, in order): no job is run more than once, the
\* jobs are received in the order they were passed to execute, and once no
\* worker thread is left every job passed to execute has been run once.
C16_EveryJobRunOnce ==
    /\ \A j \in 1..Len(jb.kinds) : jb.runs[j] <= 1
    /\ jb.taken = [i \in 1..Len(jb.taken) |-> i]
    /\ NoWorkerLeft => \A j \in 1..Len(jb.kinds) : jb.runs[j] = 1

\* C17 (drop joins the workers): a drop of the pool that has returned has
\* closed the sender, every worker thread has exited and the queue is
\* empty; and a drop that has begun returns.
C17_DropTerminates ==
    /\ [](pl.state = "dropped"
            => /\ ~pl.sender
               /\ \A w \in Workers : wk[w].pc = "exited"
               /\ queue = <<>>)
    /\ (pl.state = "dropping") ~> (pl.state = "dropped")

\* C18 (a panic costs no worker): while the pool is in use all of its
\* NWorkers worker threads are alive.
C18_PanicKeepsWorkers ==
    pl.state = "live"
        => Cardinality({w \in Workers : wk[w].pc \in {"recv", "run"}})
               = NWorkers

(***************************************************************************)
(* Claims about the server's startup and shutdown                          *)
(***************************************************************************)

\* C19 (PID file at startup): once startup has decided, if the PID file
\* found names a process that is alive, with_paths has failed naming that
\* PID and the PID file and the log are as found; if the PID file found is
\* unparsable or names a process that did not exist, startup has not failed
\* on it, the stale file is gone and the PID written is the server's.
C19_PidFileDecision ==
    LET f == sv.first IN
    sv.pc \in {"checked", "written", "loop", "failed"} =>
        /\ (f.exists /\ f.valid /\ ptab[f.pid] # "none")
               => /\ sv.pc = "failed" /\ sv.res = "AddrInUse" /\ sv.pid = f.pid
                  /\ pidfile = f
                  /\ disk = <<>>
        /\ (f.exists /\ (~f.valid \/ f.pid \notin sv.alive))
               => /\ sv.res # "AddrInUse"
                  /\ sv.pc = "checked" => ~pidfile.exists
                  /\ sv.pc \in {"written", "loop"} => pidfile = PidFileOf(MyPid)

\* C20 (shutdown on a signal): once SIGTERM or SIGINT has been delivered
\* to a running server, no connection is accepted after the accept loop has
\* ended, and eventually the running flag is false, run has returned, the
\* server is torn down and the PID file is removed, whatever connections
\* are open.
C20_ShutdownCompletes ==
    /\ [][sv.pc \notin {"loop", "accept"}
              => \A c \in Conns : cn'[c] = "queued" => cn[c] = "queued"]_vars
    /\ (sv.sig # "none")
           ~> (sv.pc = "down" /\ ~sv.running /\ ~pidfile.exists)

\* C21 (order of the shutdown steps): the PID file is removed last: while
\* it is absent the running flag is false, the thread pool has been dropped
\* and joined, and no handler of the server is queued or running.
C21_PidFileRemovedLast ==
    ~pidfile.exists => (~sv.running /\ sv.pc = "down" /\ InFlight = {})

(***************************************************************************)
(* Claims about the calls on the Database                                  *)
(***************************************************************************)

\* The key rules: not empty, at most MaxKeyLen bytes, no space, no newline.
InvalidKey(k) ==
    \/ k = <<>>
    \/ Len(k) > MaxKeyLen
    \/ \E i \in DOMAIN k : k[i] \in {32, 10}

\* C22 (validation of the inputs): a set or delete with an invalid key
\* returns InvalidKey, a set with a valid key and a value larger than
\* MaxValueLen returns ValueTooLarge, and in each case the call leaves the
\* index and the log as it found them.
C22_InputsValidated ==
    /\ (call.op \in {"set", "delete"} /\ InvalidKey(call.key))
           => (call.res = "InvalidKey"
                   /\ cache = call.cache /\ disk = call.disk)
    /\ (call.op = "set" /\ ~InvalidKey(call.key)
            /\ Len(call.value) > MaxValueLen)
           => (call.res = "ValueTooLarge"
                   /\ cache = call.cache /\ disk = call.disk)

\* C23 (no empty key): in every state of an open engine, after a replay
\* and after any set or delete call, the index has no entry whose key is
\* the empty string.
C23_NoEmptyKey ==
    up => <<>> \notin DOMAIN cache

\* C24 (a failed write is invisible): when a set or delete of a valid key
\* and value has returned an Io error, the engine is still open and get of
\* every key answers what it answered before the call.
C24_FailedWriteInvisible ==
    (/\ call.op \in {"set", "delete"} /\ call.res = "Io"
     /\ ~InvalidKey(call.key) /\ Len(call.value) <= MaxValueLen)
        => (up /\ \A k \in CallKeys : get(k) = Lookup(call.cache, k))

\* The key-value state that a log holds: what a replay of it builds.
StateOf(bytes) == BuildCache(replay(bytes).entries, EmptyMap)

\* C25 (a crash in compaction): when the process has died at a step of
\* LogFile::compact, the file at the log path is the whole log that the
\* compaction started from or a whole compacted log of it, and it replays,
\* also in the restarted engine, to the state that the log held when the
\* compaction started.
C25_CompactCrashSafe ==
    cs.pc \in {"crashed", "restarted"} =>
        /\ disk = call.disk \/ disk \in CompactedLogs(call.disk)
        /\ StateOf(disk) = StateOf(call.disk)
        /\ cs.pc = "restarted" => (up /\ cache = StateOf(call.disk))

\* The last call was a set that returned Ok and whose append took the
\* tracked length over MAX_LOG_SIZE.
SetCrossedThreshold ==
    /\ call.op = "set" /\ call.res = "Ok"
    /\ call.size + Len(to_string(Set(call.key, call.value))) + 1 > MAX_LOG_SIZE

\* C29 (compaction inside append): after a set whose append took the
\* tracked length over the threshold, the log has been compacted, the value
\* just set is what get returns and what a replay of the log yields for the
\* key, and the tracked length is the size of the file.
C29_AppendCompacts ==
    SetCrossedThreshold =>
        /\ disk \in CompactedLogs(call.disk
                                      \o to_string(Set(call.key, call.value))
                                      \o <<10>>)
        /\ get(call.key) = Some(call.value)
        /\ Lookup(StateOf(disk), call.key) = Some(call.value)
        /\ current_size = Len(disk)

\* C30 (the tracked length): after every open, set, delete and compact that
\* returned Ok, LogFile.current_size is the size of the file at the log path.
C30_TrackedLength ==
    (up /\ call.op \in {"open", "set", "delete", "compact"} /\ call.res = "Ok")
        => current_size = Len(disk)

(***************************************************************************)
(* Claims about the log format                                             *)
(***************************************************************************)

\* The whole lines of a file: the bytes up to each line feed; what follows
\* the last line feed is not a line.
RECURSIVE CompleteLines(_)
CompleteLines(bytes) ==
    LET p == Find(bytes, 10, 1) IN
    IF bytes = <<>> \/ p = 0 THEN <<>>
    ELSE <<SubSeq(bytes, 1, p - 1)>>
             \o CompleteLines(SubSeq(bytes, p + 1, Len(bytes)))

\* The records of the whole lines that parse, in file order.
RECURSIVE RecordsOf(_)
RecordsOf(ls) ==
    IF ls = <<>> THEN <<>>
    ELSE LET e == IF IsUtf8(Head(ls)) THEN from_string(Head(ls)) ELSE NoEntry
         IN  (IF e = NoEntry THEN <<>> ELSE <<e>>) \o RecordsOf(Tail(ls))

\* C26 (replay skips what is not a record): LogFile::replay returns Ok with
\* the records of the whole lines of the log that parse, in file order: a
\* corrupt line gives no record and does not stop the replay, and a last
\* line without its line feed gives no record.
C26_ReplaySkips ==
    fx.fn = "replay" =>
        /\ fx.out.ok
        /\ fx.out.entries = RecordsOf(CompleteLines(fx.in))

\* C28 (parsing inverts serialization): from_string(to_string(r)) is r for
\* every SET and DELETE record with a valid key, whatever the value.
C28_ParseInvertsSerialize ==
    fx.fn = "from_string" => fx.out = fx.in

(***************************************************************************)
(* Claims about serving clients                                            *)
(***************************************************************************)

\* C27 (more clients than workers): with NWorkers workers and more clients
\* than that, each writing finitely many requests and closing, every
\* accepted connection is eventually handled and every request written
\* eventually has its response.
C27_AllClientsServed ==
    \A c \in Conns :
        /\ (cn[c] = "queued") ~> (cn[c] \in {"handling", "done"})
        /\ \A i \in 1..MaxReqs : (rq.sent[c] >= i) ~> (rq.answered[c] >= i)

\* C27 witness: more clients than workers have connected, each has written
\* MaxReqs requests, all have their responses and all handlers have returned.
C27_Witness ==
    /\ MaxConns > NWorkers
    /\ \A c \in Conns :
           cn[c] = "done" /\ rq.sent[c] = MaxReqs /\ rq.answered[c] = MaxReqs

\* A handler is inside a command: it has read one and has not yet dropped
\* the storage guard.
InCommand(t) == th[t].pc # "idle" \/ lk.storage = t

\* A compaction is in progress in thread t.
Compacting(t) == th[t].pc = "cmp_run"

\* A GET that handler u has read while another handler compacts.
GetDuringCompaction(u) ==
    /\ th[u].op = "get" /\ th[u].pc \in {"hc_lock", "hc_call"}
    /\ \E t \in Threads \ {u} : Compacting(t)

\* C31: while a compaction is in progress a GET read on another connection
\* needs only the index read lock, which the compaction does not hold: the
\* GET never waits for the compaction to finish.
C31_ReadsDuringCompaction ==
    \A u \in Threads :
        GetDuringCompaction(u) => lk.storage \in {0, u} /\ lk.writer = 0

\* C32: the locks are taken in one order (storage mutex, index write lock,
\* log mutex), so every command a handler has read is eventually finished
\* and its guards dropped, whatever the other handlers do.
C32_EveryCallReturns ==
    \A t \in Threads : InCommand(t) ~> ~InCommand(t)

\* A handler waits for the storage mutex while another is inside a set
\* whose append takes the log over MAX_LOG_SIZE, and so compacts.
C32_Witness ==
    \E t, u \in Threads :
        /\ th[u].pc = "hc_lock"
        /\ th[t].pc = "set_append" /\ lk.storage = t /\ lk.writer = t
        /\ lk.log = t
        /\ current_size + Len(to_string(Set(th[t].k, th[t].v))) + 1
               > MAX_LOG_SIZE


\* C33: at every step of LogFile::compact and of with_log_path at most one
\* process holds an exclusive lock taken through the log path, and at most
\* one process has an engine open on the log path.
C33_OneEngineOnLog ==
    /\ Cardinality(fl) <= 1
    /\ Cardinality({p \in Procs : EngineOpen(p)}) <= 1


(***************************************************************************)
(* Claims about compaction, deletes and appends after a crash              *)
(***************************************************************************)

\* Some key of the records rs was overwritten or deleted.
Superseded(rs) ==
    \/ \E i \in DOMAIN rs : rs[i].type = "Delete"
    \/ \E i, j \in DOMAIN rs : i < j /\ rs[i].key = rs[j].key

\* C34 (compaction writes the minimal log): after a compact that returned
\* Ok the log holds exactly one SET record for each key whose last record
\* was a SET, with that value, and no other record; the file is no larger
\* than before, and smaller when a key had been overwritten or deleted.
C34_CompactionMinimal ==
    (call.op = "compact" /\ call.res = "Ok") =>
        LET pre == RecordsOf(CompleteLines(call.disk))
            last == BuildCache(pre, EmptyMap)
            post == RecordsOf(CompleteLines(disk))
        IN  /\ \A i \in DOMAIN post :
                   /\ post[i].type = "Set"
                   /\ post[i].key \in DOMAIN last
                   /\ post[i].value = last[post[i].key]
                   /\ \A j \in DOMAIN post : post[j].key = post[i].key => j = i
            /\ \A k \in DOMAIN last : \E i \in DOMAIN post : post[i].key = k
            /\ Len(disk) <= Len(call.disk)
            /\ Superseded(pre) => Len(disk) < Len(call.disk)


\* C35 (the server's log file): a server started with
\* with_paths(pid_file, log_file, n) has its engine open on log_file, the
\* mutations it accepts are appended to log_file, and it is not refused the
\* log because of a server that was given another log file.
C35_ServerUsesLogFile ==
    \A p \in Procs :
        /\ svs.pc[p] = "ready" => svs.log[p] = svs.arg[p].log_file
        /\ \A f \in DOMAIN svs.wrote : p \in svs.wrote[f] => f = svs.arg[p].log_file
        /\ svs.res[p] = "AlreadyExists" =>
               \E q \in Procs \ {p} : svs.arg[q].log_file = svs.arg[p].log_file


\* Two servers were started on the same PID file and the same log file.
SamePaths == \A p, q \in Procs : svs.arg[p] = svs.arg[q]

\* C38 (racing startups): of the servers started on the same PID file and
\* log file at most one is ready at a time, and while one is ready the PID
\* file, if it exists, holds the pid of the ready server.
C38_OneReadyServer ==
    SamePaths =>
        /\ Cardinality({p \in Procs : svs.pc[p] = "ready"}) <= 1
        /\ \A p \in Procs :
               svs.pc[p] = "ready" => svs.pidf[svs.arg[p].pid_file] \in {0, p}

\* C39 (the PID file after a failed startup): when with_paths has written
\* the PID file and then returns an error, because the engine could not be
\* opened or the bind timed out, the PID file is gone.
C39_PidFileRemovedOnError ==
    (sv.pc = "failed" /\ sv.res \in {"DbErr", "BindErr"}) => ~pidfile.exists


\* C36 (delete of an absent key): a delete of a key that is not in the
\* index returns Ok and leaves the log, the index and the tracked length
\* as they were; a delete that changed the log was one of a key in the
\* index.
C36_DeleteAbsentKey ==
    call.op = "delete" =>
        /\ call.key \notin DOMAIN call.cache =>
               /\ call.res = "Ok"
               /\ disk = call.disk
               /\ cache = call.cache
               /\ current_size = call.size
        /\ disk # call.disk => call.key \in DOMAIN call.cache

\* A delete of a key that is not in the index has returned, the log holding
\* a record and the index another key.
C36_Witness ==
    /\ call.op = "delete" /\ call.res = "Ok"
    /\ call.key \notin DOMAIN call.cache
    /\ call.disk # <<>> /\ call.cache # EmptyMap
    /\ disk = call.disk


\* The file does not end in a line feed: its last line was cut short.
Torn(bytes) == bytes # <<>> /\ bytes[Len(bytes)] # 10

\* The record that the last call appended.
Appended ==
    IF call.op = "set" THEN Set(call.key, call.value) ELSE Delete(call.key)

\* The last call was a set or a delete that returned Ok after appending its
\* record, without compaction, to a log that ended in the middle of a line.
AppendedAfterTornTail ==
    /\ call.op \in {"set", "delete"} /\ call.res = "Ok"
    /\ call.op = "delete" => call.key \in DOMAIN call.cache
    /\ Torn(call.disk)
    /\ call.size + Len(to_string(Appended)) + 1 <= MAX_LOG_SIZE

\* C37 (appending after a torn tail): a record appended by a successful set
\* or delete to a log whose last line was cut short is returned by the next
\* replay, as a record of its own and unaltered.
C37_AppendAfterTornTail ==
    AppendedAfterTornTail =>
        LET r == replay(disk) IN
        /\ r.ok
        /\ \E i \in DOMAIN r.entries : r.entries[i] = Appended


====
